---------------------------- MODULE Spec2Model ----------------------------
(***************************************************************************)
(* Model of the card recommendation engine of trello-clone                 *)
(* (backend/src/services/recommendationService.js).  The file holds two    *)
(* variants of class RecommendationService:                                *)
(*   - generateRecommendations(card) with analyzeDueDate,                  *)
(*     analyzeListMovement, analyzePriority and the token-overlap          *)
(*     findRelatedCards(card, boardCards)            (lines 304-530);      *)
(*   - generateRecommendations(cardId) with suggestDueDate,                *)
(*     suggestListMovement, suggestPriority and the TF-IDF                 *)
(*     findRelatedCards(card)                        (lines 1-303).        *)
(* The controllers that call the service (cardController.js and the        *)
(* getCardRecommendations handler) are modelled with their board-access    *)
(* test.  The card and board controllers' bookkeeping requests, the         *)
(* browser's API client and auth store, and the socket server are modelled *)
(* as specifications of their own over the same collections.               *)
(* A JavaScript string is a sequence of one-character strings, so that     *)
(* String.includes, toLowerCase, split and the tokenizer are computed on   *)
(* the characters, as the code computes them.                              *)
(***************************************************************************)
EXTENDS Integers, Sequences, FiniteSets, TLC

VARIABLES
    card,            \* the subject card document
    lists,           \* the List collection, in storage order
    cards,           \* the Card collection, in storage order
    now,             \* the wall clock read by new Date()
    variant,         \* which generateRecommendations runs: "card" or "cardId"
    pc,              \* position of the running call
    loaded,          \* what the awaited queries have returned so far, and
                     \* the error a catch block of the call has received
    dueDateRec,      \* return value of analyzeDueDate / suggestDueDate
    listMovementRec, \* return value of analyzeListMovement / suggestListMovement
    priorityRec,     \* return value of analyzePriority / suggestPriority
    relatedCardsRec, \* return value of findRelatedCards
    response,        \* what generateRecommendations returned or threw
    boards,          \* the Board collection
    req,             \* the HTTP request a controller is handling
    res,             \* the HTTP response the controller has sent
    hpc,             \* position of the controller's handler
    controller,      \* which card controller is deployed
    calls,           \* the card and board requests in flight, one per
                     \* connection
    book,            \* what those requests have done so far
    localStorage,    \* the browser's localStorage: token and refreshToken
    store,           \* the state of useAuthStore: user, token, loading
    defaults,        \* api.defaults.headers.Authorization
    location,        \* window.location.href
    requests,        \* the requests made through the API client
    session,         \* the tokens the server has issued, and whether logout
                     \* ran since the last login or register
    joined,          \* the rooms of each connected socket
    emitted          \* the event the socket server relayed last

vars == <<card, lists, cards, now, variant, pc, loaded,
          dueDateRec, listMovementRec, priorityRec, relatedCardsRec, response,
          boards, req, res, hpc, controller, calls, book,
          localStorage, store, defaults, location, requests, session,
          joined, emitted>>

\* What the controllers own: untouched by the recommendation service
accessVars == <<boards, req, res, hpc>>

\* The browser: the API client and the auth store
frontVars == <<localStorage, store, defaults, location, requests, session>>

\* The socket server
socketVars == <<joined, emitted>>

\* What lies outside the recommendation requests: the concurrent card and
\* board requests of the controllers, the browser and the socket server
outerVars == <<controller, calls, book, frontVars, socketVars>>

\* JavaScript null and undefined where an object is expected, and "this step
\* has not produced a value yet".  Objects are records, so these are records.
Null == [type |-> "null"]
Undefined == [type |-> "undefined"]
NotRun == [type |-> "notRun"]
\* undefined where a string is expected (a missing description).  A string is
\* a sequence of one-character strings, so this sequence is no string.
UndefinedStr == <<"undefined">>
\* A mongoose ObjectId
ObjectId(n) == [oid |-> n]

-----------------------------------------------------------------------------
(* Bounds of the checked instances *)

\* Longest card title, in fragments of Fragments.
MaxTitleWords == 2
\* Largest number of sibling cards stored on the board.
MaxSiblings == 4
\* Longest sibling / subject title of the similarity instances, in words.
MaxRelWords == 2

-----------------------------------------------------------------------------
(* Strings *)

UpperLetters == <<"A","B","C","D","E","F","G","H","I","J","K","L","M","N","O","P","Q","R","S","T","U","V","W","X","Y","Z">>
LowerLetters == <<"a","b","c","d","e","f","g","h","i","j","k","l","m","n","o","p","q","r","s","t","u","v","w","x","y","z">>
Digits == <<"0","1","2","3","4","5","6","7","8","9">>

RECURSIVE IndexOf(_, _, _)
\* Smallest i >= from with seq[i] = x, 0 when there is none.
IndexOf(seq, x, from) ==
    IF from > Len(seq) THEN 0
    ELSE IF seq[from] = x THEN from
    ELSE IndexOf(seq, x, from + 1)

\* Array.prototype.includes
Includes(arr, x) == \E i \in 1..Len(arr) : arr[i] = x

UpperSet == {UpperLetters[i] : i \in 1..Len(UpperLetters)}
LowerOf == [c \in UpperSet |-> LowerLetters[IndexOf(UpperLetters, c, 1)]]

\* String.prototype.toLowerCase on the letters A-Z
ToLowerChar(c) == IF c \in UpperSet THEN LowerOf[c] ELSE c

toLowerCase(s) == [i \in 1..Len(s) |-> ToLowerChar(s[i])]

\* String.prototype.includes: kw occurs in s as a contiguous substring
StrIncludes(s, kw) ==
    \E i \in 0..(Len(s) - Len(kw)) : \A j \in 1..Len(kw) : s[i + j] = kw[j]

\* The regular-expression class \w, and the word characters of the
\* tokenizer's pattern, on ASCII text
WordChars ==
    UpperSet \cup {LowerLetters[i] : i \in 1..Len(LowerLetters)}
             \cup {Digits[i] : i \in 1..Len(Digits)} \cup {"_"}

IsWordChar(c) == c \in WordChars

\* The k-th smallest element of a set of integers
Nth(S, k) == CHOOSE i \in S : Cardinality({j \in S : j < i}) = k - 1

\* natural.WordTokenizer.tokenize: the maximal runs of word characters of s,
\* in order (the k-th run goes from the k-th start to the k-th end)
tokenize(s) ==
    LET n == Len(s)
        starts == {i \in 1..n : IsWordChar(s[i]) /\ (i = 1 \/ ~IsWordChar(s[i - 1]))}
        ends == {i \in 1..n : IsWordChar(s[i]) /\ (i = n \/ ~IsWordChar(s[i + 1]))}
    IN  [k \in 1..Cardinality(starts) |-> SubSeq(s, Nth(starts, k), Nth(ends, k))]

LongWord(w) == Len(w) > 3

\* text.split(/\W+/).filter(w => w.length > 3): the empty strings that split
\* yields at the ends of the text are shorter than 4 and are filtered out
SplitWords(s) == SelectSeq(tokenize(s), LongWord)

\* Template literal conversion of ${x}: undefined prints as "undefined"
TemplateStr(x) == IF x = UndefinedStr THEN <<"u","n","d","e","f","i","n","e","d">> ELSE x

\* `${card.title} ${card.description}`
TitleAndDescription(c) == TemplateStr(c.title) \o <<" ">> \o TemplateStr(c.description)

-----------------------------------------------------------------------------
(* Dates: a Date is the local calendar day, the millisecond of that day,   *)
(* and tz, the minutes local time is behind UTC (getTimezoneOffset)        *)

MsPerDay == 24 * 60 * 60 * 1000
EndOfDay == ((23 * 60 + 59) * 60 + 59) * 1000 + 999

\* new Date()
NewDate == now
\* d.setHours(23, 59, 59, 999)
SetHoursEndOfDay(d) == [d EXCEPT !.ms = EndOfDay]
\* d.setDate(d.getDate() + n)
AddDays(d, n) == [d EXCEPT !.day = @ + n]
\* d.toISOString(): the string giving the UTC calendar day and time of d
toISOString(d) ==
    LET utc == d.day * MsPerDay + d.ms + d.tz * 60 * 1000
    IN  [iso |-> [day |-> utc \div MsPerDay, ms |-> utc % MsPerDay]]
\* new Date(string): the local day and time of the instant an ISO string
\* names, as the recommendations panel reads a suggested date
ParseDate(string) ==
    LET local == string.iso.day * MsPerDay + string.iso.ms - now.tz * 60 * 1000
    IN  [day |-> local \div MsPerDay, ms |-> local % MsPerDay, tz |-> now.tz]

-----------------------------------------------------------------------------
(* generateRecommendations(card): keyword tables (static fields) *)

urgentKeywords ==
    << <<"u","r","g","e","n","t">>, <<"a","s","a","p">>, <<"c","r","i","t","i","c","a","l">>, <<"e","m","e","r","g","e","n","c","y">>, <<"i","m","m","e","d","i","a","t","e","l","y">>,
       <<"h","i","g","h"," ","p","r","i","o","r","i","t","y">> >>
inProgressKeywords ==
    << <<"w","o","r","k","i","n","g"," ","o","n">>, <<"s","t","a","r","t","e","d">>, <<"i","n"," ","p","r","o","g","r","e","s","s">>, <<"c","u","r","r","e","n","t","l","y">>, <<"d","o","i","n","g">> >>
doneKeywords ==
    << <<"c","o","m","p","l","e","t","e","d">>, <<"f","i","n","i","s","h","e","d">>, <<"d","o","n","e">>, <<"r","e","s","o","l","v","e","d">>, <<"f","i","x","e","d">> >>
dateKeywords ==
    << <<"t","o","d","a","y">>, <<"t","o","m","o","r","r","o","w">>, <<"n","e","x","t"," ","w","e","e","k">>, <<"d","e","a","d","l","i","n","e">>, <<"d","u","e">>, <<"b","y">> >>

\* keywords.some(keyword => text.includes(keyword))
SomeIncluded(keywords, text) ==
    \E i \in 1..Len(keywords) : StrIncludes(text, keywords[i])

\* keywords.filter(keyword => text.includes(keyword)).length
CountIncluded(keywords, text) ==
    Cardinality({i \in 1..Len(keywords) : StrIncludes(text, keywords[i])})

\* A value is truthy unless it is null or undefined (no other falsy value
\* occurs in the fields read this way)
Truthy(x) == x # Null /\ x # Undefined

\* if (card.dueDate) return null, with the guard dropped
analyzeDueDateGuard_Dropped(c) == FALSE
analyzeDueDateGuard(c) == Truthy(c.dueDate)

\* the offset analyzeDueDate gives an urgent text, set to the same day
UrgentDueDate_SameDay == SetHoursEndOfDay(NewDate)
UrgentDueDate == AddDays(NewDate, 1)

\* the date analyzeDueDate gives a text that mentions a date
DateMentionDueDate == AddDays(NewDate, 3)

\* text.length > 100: the length above which a task counts as complex
ComplexTextLength == 100

\* text.length > 100, with the test never holding
IsComplexText_Never(text) == FALSE
IsComplexText(text) == Len(text) > ComplexTextLength

analyzeDueDate(text, c) ==
    IF analyzeDueDateGuard(c) THEN Null
    ELSE
    LET hasUrgent == SomeIncluded(urgentKeywords, text)
        hasDateMention == SomeIncluded(dateKeywords, text)
        Rec(date, conf, reason) ==
            [type |-> "due_date", title |-> "Due Date Suggestion",
             description |-> reason, suggestedDate |-> toISOString(date),
             confidence |-> conf]
    IN  IF hasUrgent THEN
            Rec(UrgentDueDate, "high",
                "Contains urgent keywords suggesting immediate action")
        ELSE IF hasDateMention THEN
            Rec(DateMentionDueDate, "medium", "Contains time-related keywords")
        ELSE IF IsComplexText(text) THEN
            Rec(AddDays(NewDate, 7), "low",
                "Complex task detected - allocating more time")
        ELSE Null

\* The first index at which the sequence of booleans holds TRUE, 0 if none
FirstTrue(flags) ==
    LET hits == {i \in 1..Len(flags) : flags[i]}
    IN  IF hits = {} THEN 0 ELSE CHOOSE i \in hits : \A j \in hits : i <= j

\* Array.prototype.find: the first element of arr whose flag is TRUE, or
\* undefined; flags[i] is the value of the predicate on arr[i]
Find(arr, flags) ==
    IF FirstTrue(flags) = 0 THEN Undefined ELSE arr[FirstTrue(flags)]

\* A thrown TypeError (a property read on null or undefined)
TypeError == [throws |-> "TypeError"]

\* x.toString(): the hexadecimal string of an ObjectId, and for a document
\* (a populated reference) the text that console.log prints of it, which is
\* the string of no ObjectId
toString(x) ==
    IF "oid" \in DOMAIN x THEN [hex |-> x.oid] ELSE [inspect |-> x]

analyzeListMovement(text, c, ls) ==
    IF ~Truthy(c.list) THEN TypeError    \* card.list.toString() of null
    ELSE
    LET IsCurrent(l) == toString(l._id) = toString(c.list)
        HasDone(l) == StrIncludes(toLowerCase(l.title), <<"d","o","n","e">>)
        HasProgress(l) == StrIncludes(toLowerCase(l.title), <<"p","r","o","g","r","e","s","s">>)
        currentList == Find(ls, [i \in 1..Len(ls) |-> IsCurrent(ls[i])])
    IN  IF currentList = Undefined THEN Null
        ELSE
        LET isDone == SomeIncluded(doneKeywords, text)
            doneList == Find(ls, [i \in 1..Len(ls) |-> HasDone(ls[i])])
            afterDone ==
                IF /\ isDone
                   /\ toLowerCase(currentList.title) # <<"d","o","n","e">>
                   /\ doneList # Undefined
                THEN [suggestedList |-> doneList.title, confidence |-> "high",
                      reason |-> "Card description contains completion keywords"]
                ELSE Null
            isInProgress == SomeIncluded(inProgressKeywords, text)
            progressList == Find(ls, [i \in 1..Len(ls) |-> HasProgress(ls[i])])
            afterProgress ==
                IF /\ isInProgress
                   /\ ~StrIncludes(toLowerCase(currentList.title), <<"p","r","o","g","r","e","s","s">>)
                   /\ progressList # Undefined
                THEN [suggestedList |-> progressList.title, confidence |-> "medium",
                      reason |-> "Card description indicates work has begun"]
                ELSE afterDone
        IN  IF afterProgress = Null THEN Null
            ELSE [type |-> "list_movement", title |-> "List Movement Suggestion",
                  description |-> afterProgress.reason,
                  suggestedList |-> afterProgress.suggestedList,
                  confidence |-> afterProgress.confidence]

\* suggestedPriority !== card.priority, with the comparison dropped
DiffersFromCurrent_Dropped(suggested, c) == TRUE
DiffersFromCurrent(suggested, c) == suggested # c.priority

\* the count of urgent keywords, counting only the first five of the table
UrgentCount_FiveKeywords(text) == CountIncluded(SubSeq(urgentKeywords, 1, 5), text)
UrgentCount(text) == CountIncluded(urgentKeywords, text)

analyzePriority(text, c) ==
    IF c.priority = "urgent" THEN Null
    ELSE
    LET urgentCount == UrgentCount(text)
        computed ==
            IF urgentCount >= 2 THEN
                [suggestedPriority |-> "urgent", confidence |-> "high",
                 reason |-> "Multiple urgent indicators found in text"]
            ELSE IF urgentCount = 1 THEN
                [suggestedPriority |-> "high", confidence |-> "medium",
                 reason |-> "Urgent keyword detected"]
            ELSE IF StrIncludes(text, <<"i","m","p","o","r","t","a","n","t">>) \/ StrIncludes(text, <<"p","r","i","o","r","i","t","y">>) THEN
                [suggestedPriority |-> "high", confidence |-> "medium",
                 reason |-> "Priority keyword mentioned"]
            ELSE Null
    IN  IF computed # Null /\ DiffersFromCurrent(computed.suggestedPriority, c) THEN
            [type |-> "priority", title |-> "Priority Adjustment",
             description |-> computed.reason,
             suggestedPriority |-> computed.suggestedPriority,
             confidence |-> computed.confidence]
        ELSE Null

\* Math.round of the non-negative ratio (num / den) * 100, den > 0
RoundPercent(num, den) == (200 * num + den) \div (2 * den)

\* Not-a-number (0 / 0): every comparison NaN > x is false, as with this value
NaN == 0 - 1

Max(a, b) == IF a >= b THEN a ELSE b
Min(a, b) == IF a <= b THEN a ELSE b

\* the similarity of findRelatedCards(card, boardCards) for two word arrays
Similarity(words, otherWords) ==
    LET InOther(w) == Includes(otherWords, w)
        commonWords == SelectSeq(words, InOther)
        longest == Max(Len(words), Len(otherWords))
    IN  IF longest = 0 THEN NaN ELSE RoundPercent(Len(commonWords), longest)

\* items.sort((a, b) => b.similarity - a.similarity): stable, descending;
\* first with the array left as it was
SortBySimilarity_Unsorted(items) == items
SortBySimilarity(items) ==
    LET n == Len(items)
        key == [i \in 1..n |-> items[i].similarity]
        rank ==
            [i \in 1..n |->
                1 + Cardinality({j \in 1..n :
                        key[j] > key[i] \/ (key[j] = key[i] /\ j < i)})]
    IN  [p \in 1..n |-> items[CHOOSE i \in 1..n : rank[i] = p]]

\* arr.slice(0, 3)
SliceTop(arr) == SubSeq(arr, 1, Min(3, Len(arr)))

\* similarity > 30, the 30% threshold of findRelatedCards(card, boardCards)
PassesThreshold(similarity) == similarity > 30

\* topRelated.length >= 2 ? 'high' : 'medium'; first with medium throughout
RelatedConfidence_Medium(topRelated) == "medium"
RelatedConfidence(topRelated) ==
    IF Len(topRelated) >= 2 THEN "high" ELSE "medium"

findRelatedCards(c, others) ==
    LET cardText == toLowerCase(TitleAndDescription(c))
        words == SplitWords(cardText)
        \* the similarity computed in the iteration for others[i]
        similarity ==
            [i \in 1..Len(others) |->
                Similarity(words,
                           SplitWords(toLowerCase(TitleAndDescription(others[i]))))]
        Passes(i) == PassesThreshold(similarity[i])
        passing == SelectSeq([i \in 1..Len(others) |-> i], Passes)
        relatedCards ==
            [k \in 1..Len(passing) |->
                [title |-> others[passing[k]].title,
                 similarity |-> similarity[passing[k]],
                 cardId |-> others[passing[k]]._id]]
        topRelated == SliceTop(SortBySimilarity(relatedCards))
    IN  IF Len(relatedCards) > 0 THEN
            [type |-> "related_cards", title |-> "Related Cards Found",
             description |->
                "These cards have similar content and might be grouped together",
             cards |-> topRelated,
             confidence |-> RelatedConfidence(topRelated)]
        ELSE Null

-----------------------------------------------------------------------------
(* generateRecommendations(cardId): the suggesters of the first variant *)

urgencyKeywords ==
    [today    |-> << <<"t","o","d","a","y">>, <<"n","o","w">>, <<"i","m","m","e","d","i","a","t","e">>, <<"a","s","a","p">>, <<"i","m","m","e","d","i","a","t","e","l","y">> >>,
     tomorrow |-> << <<"t","o","m","o","r","r","o","w">>, <<"u","r","g","e","n","t">>, <<"c","r","i","t","i","c","a","l">> >>,
     thisWeek |-> << <<"t","h","i","s"," ","w","e","e","k">>, <<"s","o","o","n">>, <<"s","h","o","r","t","l","y">>, <<"q","u","i","c","k","l","y">> >>,
     nextWeek |-> << <<"n","e","x","t"," ","w","e","e","k">>, <<"u","p","c","o","m","i","n","g">>, <<"l","a","t","e","r">> >>,
     twoWeeks |-> << <<"t","w","o"," ","w","e","e","k","s">>, <<"c","o","u","p","l","e"," ","w","e","e","k","s">>, <<"f","o","r","t","n","i","g","h","t">> >>]

\* The index of the first token at which the for-loop breaks, 0 when the loop
\* runs to its end; breaks[i] is the disjunction of the loop's conditions at
\* token i.
FirstBreak(breaks) == FirstTrue(breaks)

suggestDueDate(c) ==
    LET content == toLowerCase(TitleAndDescription(c))
        tokens == tokenize(content)
        thisWeekHit == SomeIncluded(urgencyKeywords.thisWeek, content)
        nextWeekHit == SomeIncluded(urgencyKeywords.nextWeek, content)
        Breaks(token) ==
            \/ Includes(urgencyKeywords.today, token)
            \/ Includes(urgencyKeywords.tomorrow, token)
            \/ thisWeekHit
            \/ nextWeekHit
        at == FirstBreak([i \in 1..Len(tokens) |-> Breaks(tokens[i])])
        found ==
            IF at = 0 THEN Null
            ELSE IF Includes(urgencyKeywords.today, tokens[at]) THEN
                [suggestedDate |-> SetHoursEndOfDay(NewDate), confidence |-> "high",
                 reason |-> [text |-> "Detected urgent keyword", token |-> tokens[at]]]
            ELSE IF Includes(urgencyKeywords.tomorrow, tokens[at]) THEN
                [suggestedDate |-> AddDays(NewDate, 1), confidence |-> "high",
                 reason |-> [text |-> "Detected high priority keyword",
                             token |-> tokens[at]]]
            ELSE IF thisWeekHit THEN
                [suggestedDate |-> AddDays(NewDate, 3), confidence |-> "medium",
                 reason |-> [text |-> "Detected this week timeframe"]]
            ELSE
                [suggestedDate |-> AddDays(NewDate, 7), confidence |-> "medium",
                 reason |-> [text |-> "Detected next week timeframe"]]
        final ==
            IF found = Null /\ ~Truthy(c.dueDate) THEN
                [suggestedDate |-> AddDays(NewDate, 5), confidence |-> "low",
                 reason |-> [text |-> "Recommended default due date (5 days)"]]
            ELSE found
    IN  IF final # Null /\ ~Truthy(c.dueDate) THEN
            [type |-> "due_date", title |-> "Suggested Due Date",
             description |-> final.reason,
             suggestedDate |-> toISOString(final.suggestedDate),
             confidence |-> final.confidence]
        ELSE Null

statusKeywords ==
    [inProgress |-> << <<"s","t","a","r","t","e","d">>, <<"w","o","r","k","i","n","g">>, <<"b","e","g","a","n">>, <<"b","e","g","u","n">>,
                       <<"i","m","p","l","e","m","e","n","t","i","n","g">>, <<"d","e","v","e","l","o","p","i","n","g">>, <<"i","n"," ","p","r","o","g","r","e","s","s">> >>,
     done       |-> << <<"d","o","n","e">>, <<"c","o","m","p","l","e","t","e","d">>, <<"f","i","n","i","s","h","e","d">>, <<"c","o","m","p","l","e","t","e">>,
                       <<"r","e","s","o","l","v","e","d">>, <<"f","i","x","e","d">>, <<"c","l","o","s","e","d">> >>,
     blocked    |-> << <<"b","l","o","c","k","e","d">>, <<"s","t","u","c","k">>, <<"i","s","s","u","e">>, <<"p","r","o","b","l","e","m">>, <<"w","a","i","t","i","n","g">>,
                       <<"p","e","n","d","i","n","g">>, <<"h","o","l","d">> >>,
     testing    |-> << <<"t","e","s","t","i","n","g">>, <<"t","e","s","t">>, <<"q","a">>, <<"r","e","v","i","e","w">>, <<"c","h","e","c","k","i","n","g">> >>]

\* c is the card with its list populated: c.list is the List document or null
suggestListMovement(c) ==
    LET content == toLowerCase(TitleAndDescription(c))
        tokens == tokenize(content)
        inProgressHit == SomeIncluded(statusKeywords.inProgress, content)
        Breaks(token) ==
            \/ Includes(statusKeywords.done, token)
            \/ Includes(statusKeywords.blocked, token)
            \/ inProgressHit
            \/ Includes(statusKeywords.testing, token)
        at == FirstBreak([i \in 1..Len(tokens) |-> Breaks(tokens[i])])
        found ==
            IF at = 0 THEN Null
            ELSE IF Includes(statusKeywords.done, tokens[at]) THEN
                [suggestedList |-> <<"D","o","n","e">>, confidence |-> "high",
                 reason |-> [text |-> "Detected completion keyword",
                             token |-> tokens[at]]]
            ELSE IF Includes(statusKeywords.blocked, tokens[at]) THEN
                [suggestedList |-> <<"B","l","o","c","k","e","d">>, confidence |-> "high",
                 reason |-> [text |-> "Detected blocking keyword",
                             token |-> tokens[at]]]
            ELSE IF inProgressHit THEN
                [suggestedList |-> <<"I","n"," ","P","r","o","g","r","e","s","s">>, confidence |-> "medium",
                 reason |-> [text |-> "Detected work-in-progress indicators"]]
            ELSE
                [suggestedList |-> <<"T","e","s","t","i","n","g">>, confidence |-> "medium",
                 reason |-> [text |-> "Detected testing keyword",
                             token |-> tokens[at]]]
    IN  IF found # Null /\ Truthy(c.list) /\ c.list.title # found.suggestedList THEN
            [type |-> "list_movement", title |-> "Suggested List Movement",
             description |-> found.reason, currentList |-> c.list.title,
             suggestedList |-> found.suggestedList, confidence |-> found.confidence]
        ELSE Null

priorityKeywords ==
    [urgent |-> << <<"u","r","g","e","n","t">>, <<"c","r","i","t","i","c","a","l">>, <<"a","s","a","p">>, <<"i","m","m","e","d","i","a","t","e","l","y">>, <<"e","m","e","r","g","e","n","c","y">> >>,
     high   |-> << <<"i","m","p","o","r","t","a","n","t">>, <<"h","i","g","h">>, <<"p","r","i","o","r","i","t","y">>, <<"c","r","u","c","i","a","l">>, <<"e","s","s","e","n","t","i","a","l">> >>,
     low    |-> << <<"m","i","n","o","r">>, <<"l","o","w">>, <<"t","r","i","v","i","a","l">>, <<"n","i","c","e"," ","t","o"," ","h","a","v","e">>, <<"o","p","t","i","o","n","a","l">> >>]

suggestPriority(c) ==
    LET content == toLowerCase(TitleAndDescription(c))
        tokens == tokenize(content)
        Breaks(token) ==
            \/ Includes(priorityKeywords.urgent, token)
            \/ Includes(priorityKeywords.high, token)
            \/ Includes(priorityKeywords.low, token)
        at == FirstBreak([i \in 1..Len(tokens) |-> Breaks(tokens[i])])
        found ==
            IF at = 0 THEN Null
            ELSE IF Includes(priorityKeywords.urgent, tokens[at]) THEN
                [suggestedPriority |-> "urgent", confidence |-> "high",
                 reason |-> [text |-> "Detected urgent keyword", token |-> tokens[at]]]
            ELSE IF Includes(priorityKeywords.high, tokens[at]) THEN
                [suggestedPriority |-> "high", confidence |-> "medium",
                 reason |-> [text |-> "Detected high priority keyword",
                             token |-> tokens[at]]]
            ELSE
                [suggestedPriority |-> "low", confidence |-> "medium",
                 reason |-> [text |-> "Detected low priority keyword",
                             token |-> tokens[at]]]
    IN  IF found # Null /\ c.priority # found.suggestedPriority THEN
            [type |-> "priority", title |-> "Suggested Priority",
             description |-> found.reason, currentPriority |-> c.priority,
             suggestedPriority |-> found.suggestedPriority,
             confidence |-> found.confidence]
        ELSE Null

\* natural.TfIdf's idf(term) = 1 + ln(N / (1 + df)), in thousandths, for N
\* documents of which df hold the term: IdfMilli[N][df + 1]
IdfMilli ==
    << << 1000, 307 >>,
       << 1693, 1000, 595 >>,
       << 2099, 1405, 1000, 712 >>,
       << 2386, 1693, 1288, 1000, 777 >>,
       << 2609, 1916, 1511, 1223, 1000, 818 >>,
       << 2792, 2099, 1693, 1405, 1182, 1000, 846 >>,
       << 2946, 2253, 1847, 1560, 1336, 1154, 1000, 866 >> >>

\* The same for QueryLimit + 1 documents (a query that returned QueryLimit
\* cards, and the subject): IdfMilliAtLimit[df + 1]
IdfMilliAtLimit ==
    << 4932, 4239, 3833, 3546, 3322, 3140, 2986, 2852, 2735, 2629,
       2534, 2447, 2367, 2293, 2224, 2159, 2099, 2041, 1987, 1936,
       1887, 1841, 1796, 1754, 1713, 1674, 1636, 1600, 1565, 1531,
       1498, 1466, 1435, 1405, 1376, 1348, 1321, 1294, 1268, 1243,
       1218, 1194, 1171, 1148, 1125, 1103, 1082, 1061, 1040, 1020,
       1000, 981 >>

\* idf(term) for N documents of which df hold the term
Idf(N, df) ==
    IF N <= Len(IdfMilli) THEN IdfMilli[N][df + 1] ELSE IdfMilliAtLimit[df + 1]

\* The number of occurrences of term in a token array: a TfIdf document
TermFrequency(term, docTokens) ==
    Cardinality({i \in 1..Len(docTokens) : docTokens[i] = term})

RECURSIVE SumMilli(_, _)
\* Sum of f[i] over i in 1..n
SumMilli(f, n) == IF n = 0 THEN 0 ELSE f[n] + SumMilli(f, n - 1)

\* tfidf.tfidfs(currentContent, callback): the measures the callback gets, one
\* for each document, in thousandths: the sum over the query's tokens (repetitions
\* included) of tf(token, document) * idf(token).  A document is the token
\* array of its lower-cased text; no text of the instances holds one of the
\* library's stop words, which addDocument would drop.
TfIdfMeasures(queryTokens, documents) ==
    LET N == Len(documents)
        terms == {queryTokens[i] : i \in 1..Len(queryTokens)}
        idf ==
            [term \in terms |->
                Idf(N, Cardinality({k \in 1..N :
                            TermFrequency(term, documents[k]) > 0}))]
    IN  [d \in 1..N |->
            SumMilli([i \in 1..Len(queryTokens) |->
                        TermFrequency(queryTokens[i], documents[d])
                            * idf[queryTokens[i]]],
                     Len(queryTokens))]

\* Math.round(measure * 100) of a measure in thousandths
RoundMeasure(milli) == (milli + 5) \div 10

\* measure > 0.3, the threshold of findRelatedCards(card), in thousandths
PassesMeasure(milli) == milli > 300

\* findRelatedCards(card) after its query returned allCards
findRelatedCardsTfIdf(c, allCards) ==
    IF Len(allCards) = 0 THEN <<>>
    ELSE
    LET currentTokens == tokenize(toLowerCase(TitleAndDescription(c)))
        documents ==
            <<currentTokens>> \o
            [i \in 1..Len(allCards) |->
                tokenize(toLowerCase(TitleAndDescription(allCards[i])))]
        measure == TfIdfMeasures(currentTokens, documents)
        Related(i) == PassesMeasure(measure[i + 1])
        hits == SelectSeq([i \in 1..Len(allCards) |-> i], Related)
        relatedCards ==
            [k \in 1..Len(hits) |->
                [card |-> allCards[hits[k]], similarity |-> measure[hits[k] + 1]]]
        top == SliceTop(SortBySimilarity(relatedCards))
    IN  [k \in 1..Len(top) |->
            [_id |-> top[k].card._id, title |-> top[k].card.title,
             list |-> top[k].card.list,
             similarity |-> RoundMeasure(top[k].similarity)]]

-----------------------------------------------------------------------------
(* Storage queries *)

\* .limit(50) of the sibling query of findRelatedCards(card)
QueryLimit == 50

\* Card.find({ board: card.board, _id: { $ne: card._id }, isArchived: false })
SiblingQuery(collection, c) ==
    LET Matches(d) == d.board = c.board /\ d._id # c._id /\ ~d.isArchived
    IN  SelectSeq(collection, Matches)

\* ... .limit(50)
SiblingQueryLimited(collection, c) ==
    LET found == SiblingQuery(collection, c)
    IN  SubSeq(found, 1, Min(QueryLimit, Len(found)))

\* List.find({ board: card.board, isArchived: false })
ListQuery(collection, c) ==
    LET Matches(l) == l.board = c.board /\ ~l.isArchived
    IN  SelectSeq(collection, Matches)

\* .populate('list'): the List document card.list refers to, null when the
\* reference is null or dangling
Populated(c, collection) ==
    LET Referred(l) == l._id = c.list
        doc == Find(collection,
                    [i \in 1..Len(collection) |-> Referred(collection[i])])
    IN  [c EXCEPT !.list = IF doc = Undefined THEN Null ELSE doc]

-----------------------------------------------------------------------------
(* The inputs of the checked instances *)

RECURSIVE JoinWords(_)
\* The words of ws separated by single spaces
JoinWords(ws) ==
    IF ws = <<>> THEN <<>>
    ELSE IF Len(ws) = 1 THEN ws[1]
    ELSE ws[1] \o <<" ">> \o JoinWords(Tail(ws))

\* All texts of 1..n fragments of the set frags
TextsOf(frags, n) ==
    {JoinWords(ws) : ws \in UNION {[1..k -> frags] : k \in 1..n}}

\* Fragments of card titles: keywords of every table, and plain words
Fragments ==
    { <<"u","r","g","e","n","t">>, <<"a","s","a","p">>, <<"t","o","d","a","y">>, <<"t","o","m","o","r","r","o","w">>, <<"l","a","t","e","r">>, <<"s","o","o","n">>,
      <<"h","i","g","h"," ","p","r","i","o","r","i","t","y">>,
      <<"i","m","p","o","r","t","a","n","t">>, <<"m","i","n","o","r">>, <<"f","i","n","i","s","h","e","d">>, <<"s","t","a","r","t","e","d">>, <<"b","l","o","c","k","e","d">>,
      <<"d","e","p","l","o","y">>, <<"F","i","x">> }

Titles == TextsOf(Fragments, MaxTitleWords)

\* A description that alone makes the text longer than 100 characters
LongDescription == [i \in 1..ComplexTextLength |-> "x"]

Descriptions == {UndefinedStr, <<>>, LongDescription}

Priorities == {"low", "medium", "high", "urgent"}

\* The start of a day in UTC, and the last millisecond of a day five hours
\* behind UTC
Midnight == [day |-> 0, ms |-> 0, tz |-> 0]
Clocks == {Midnight, [day |-> 0, ms |-> EndOfDay, tz |-> 5 * 60]}

SomeDueDate == [day |-> 2, ms |-> 0, tz |-> 0]
DueDates == {Null, SomeDueDate}

ThisBoard == ObjectId(1)
OtherBoard == ObjectId(2)

\* Users: the owner and a member of the subject's board, and the owner of
\* the other board
Owner == ObjectId(101)
Member == ObjectId(102)
Outsider == ObjectId(103)

\* The Board collection: createBoard enters the owner among the members
StoredBoards ==
    << [_id |-> ThisBoard, owner |-> Owner,
        members |-> << [user |-> Owner, role |-> "owner"],
                       [user |-> Member, role |-> "member"] >>],
       [_id |-> OtherBoard, owner |-> Outsider,
        members |-> << [user |-> Outsider, role |-> "owner"] >>] >>
SubjectId == ObjectId(10)

ListDoc(n, t, archived) ==
    [_id |-> ObjectId(n), title |-> t, board |-> ThisBoard, isArchived |-> archived]

\* Boards: the List collection of the subject's board
Boards ==
    { << ListDoc(1, <<"T","o"," ","D","o">>, FALSE), ListDoc(2, <<"I","n"," ","P","r","o","g","r","e","s","s">>, FALSE),
         ListDoc(3, <<"D","o","n","e">>, FALSE) >>,
      << ListDoc(1, <<"B","a","c","k","l","o","g">>, FALSE), ListDoc(2, <<"D","o","n","e"," ","t","h","i","s"," ","s","p","r","i","n","t">>, FALSE) >>,
      << ListDoc(1, <<"T","o"," ","D","o">>, FALSE), ListDoc(2, <<"I","n"," ","P","r","o","g","r","e","s","s">>, FALSE),
         ListDoc(3, <<"D","o","n","e">>, TRUE) >>,
      << ListDoc(1, <<"D","o","i","n","g">>, FALSE) >>,
      << ListDoc(1, <<"T","o"," ","D","o">>, FALSE), ListDoc(2, <<"B","l","o","c","k","e","d">>, FALSE) >> }

\* What card.list may hold: null, or a reference (the third list exists on
\* some boards only, or is archived)
ListRefs == {Null, ObjectId(1), ObjectId(2), ObjectId(3)}

CardDoc(t, d, due, p, l) ==
    [_id |-> SubjectId, title |-> t, description |-> d, dueDate |-> due,
     priority |-> p, list |-> l, board |-> ThisBoard, isArchived |-> FALSE]

SiblingDoc(n, t, b, archived) ==
    [_id |-> ObjectId(n), title |-> t, description |-> <<>>, dueDate |-> Null,
     priority |-> "medium", list |-> ObjectId(1), board |-> b,
     isArchived |-> archived]

\* Words of the titles of the similarity instances; "fix" is shorter than 4
RelWords == { <<"d","e","p","l","o","y">>, <<"s","e","r","v","e","r">>, <<"f","i","x">> }
RelTitles == TextsOf(RelWords, MaxRelWords)

\* Titles of the sibling cards of the similarity instances
SiblingTitles ==
    { <<"d","e","p","l","o","y">>, <<"s","e","r","v","e","r"," ","s","e","r","v","e","r"," ","d","e","p","l","o","y"," ","n","i","g","h","t","l","y">>, <<"f","i","x">> }

\* All sibling collections of at most MaxSiblings cards (ids 11, 12, ...)
SiblingCollections ==
    UNION { { [i \in 1..k |-> SiblingDoc(10 + i, ts[i], ThisBoard, FALSE)] :
                ts \in [1..k -> SiblingTitles] } : k \in 0..MaxSiblings }

\* The two definitions of the service: generateRecommendations(card) and
\* generateRecommendations(cardId); a deployment runs one of them
Variants == {"card", "cardId"}

\* No controller is handling a request
NoRequest ==
    /\ boards = StoredBoards
    /\ req = NotRun
    /\ res = NotRun
    /\ hpc = "none"

\* The two card controllers: controllers/cardController.js and the second
\* definition of the same handlers; a deployment runs one of them
CardControllers == {"cardController", "cardControllerPull"}

\* The connections on which card requests arrive
Connections == {1, 2}

NoCall == [pc |-> "idle"]

NoHistory == [started |-> 0, created |-> 0, failed |-> FALSE,
              overlapped |-> FALSE, handlers |-> {}]

\* No card request has been made
NoCardRequests ==
    /\ controller = "cardController"
    /\ calls = [p \in Connections |-> NoCall]
    /\ book = NoHistory

\* JavaScript null where a token is expected; a token is a record
NoStorage == [token |-> Null, refreshToken |-> Null]

\* No browser is open
NoBrowser ==
    /\ localStorage = NoStorage
    /\ store = [user |-> Null, token |-> Null, loading |-> TRUE]
    /\ defaults = Null
    /\ location = "/"
    /\ requests = <<>>
    /\ session = [issued |-> 0, loggedOut |-> FALSE]

\* No socket is connected
NoSockets ==
    /\ joined = <<>>
    /\ emitted = NotRun

InitResults ==
    /\ loaded = [card |-> NotRun, boardCards |-> NotRun, lists |-> NotRun,
                error |-> NotRun]
    /\ dueDateRec = NotRun
    /\ listMovementRec = NotRun
    /\ priorityRec = NotRun
    /\ relatedCardsRec = NotRun
    /\ response = NotRun

FirstBoard ==
    << ListDoc(1, <<"T","o"," ","D","o">>, FALSE), ListDoc(2, <<"I","n"," ","P","r","o","g","r","e","s","s">>, FALSE),
       ListDoc(3, <<"D","o","n","e">>, FALSE) >>

\* cardText of generateRecommendations(card)
CardText(c) == toLowerCase(TitleAndDescription(c))

-----------------------------------------------------------------------------
(* The due-date suggesters applied to every card of the instance *)

InitDueDate ==
    /\ \E t \in Titles, d \in Descriptions, due \in DueDates :
          card = CardDoc(t, d, due, "medium", ObjectId(1))
    /\ now \in Clocks
    /\ lists = FirstBoard
    /\ cards = <<>>
    /\ variant \in Variants
    /\ pc = "call"
    /\ InitResults
    /\ NoRequest
    /\ NoCardRequests
    /\ NoBrowser
    /\ NoSockets

CallAnalyzeDueDate ==
    /\ pc = "call"
    /\ UNCHANGED <<accessVars, outerVars>>
    /\ variant = "card"
    /\ dueDateRec' = analyzeDueDate(CardText(card), card)
    /\ pc' = "done"
    /\ UNCHANGED <<card, lists, cards, now, variant, loaded, listMovementRec,
                   priorityRec, relatedCardsRec, response>>

CallSuggestDueDate ==
    /\ pc = "call"
    /\ UNCHANGED <<accessVars, outerVars>>
    /\ variant = "cardId"
    /\ dueDateRec' = suggestDueDate(card)
    /\ pc' = "done"
    /\ UNCHANGED <<card, lists, cards, now, variant, loaded, listMovementRec,
                   priorityRec, relatedCardsRec, response>>

NextDueDate == CallAnalyzeDueDate \/ CallSuggestDueDate

SpecDueDate == InitDueDate /\ [][NextDueDate]_vars

-----------------------------------------------------------------------------
(* The list-movement suggesters applied to every card and board *)

InitListMovement ==
    /\ \E t \in Titles, d \in {UndefinedStr, <<>>}, l \in ListRefs :
          card = CardDoc(t, d, Null, "medium", l)
    /\ now = Midnight
    /\ lists \in Boards
    /\ cards = <<>>
    /\ variant \in Variants
    /\ pc = "call"
    /\ InitResults
    /\ NoRequest
    /\ NoCardRequests
    /\ NoBrowser
    /\ NoSockets

\* generateRecommendations(card) passes the lists its query returned
CallAnalyzeListMovement ==
    /\ pc = "call"
    /\ UNCHANGED <<accessVars, outerVars>>
    /\ variant = "card"
    /\ listMovementRec' = analyzeListMovement(CardText(card), card, ListQuery(lists, card))
    /\ pc' = "done"
    /\ UNCHANGED <<card, lists, cards, now, variant, loaded, dueDateRec,
                   priorityRec, relatedCardsRec, response>>

\* generateRecommendations(cardId) passes the card with its list populated
CallSuggestListMovement ==
    /\ pc = "call"
    /\ UNCHANGED <<accessVars, outerVars>>
    /\ variant = "cardId"
    /\ listMovementRec' = suggestListMovement(Populated(card, lists))
    /\ pc' = "done"
    /\ UNCHANGED <<card, lists, cards, now, variant, loaded, dueDateRec,
                   priorityRec, relatedCardsRec, response>>

NextListMovement == CallAnalyzeListMovement \/ CallSuggestListMovement

SpecListMovement == InitListMovement /\ [][NextListMovement]_vars

-----------------------------------------------------------------------------
(* The priority suggesters applied to every card of the instance *)

InitPriority ==
    /\ \E t \in Titles, d \in Descriptions, p \in Priorities :
          card = CardDoc(t, d, Null, p, ObjectId(1))
    /\ now = Midnight
    /\ lists = FirstBoard
    /\ cards = <<>>
    /\ variant \in Variants
    /\ pc = "call"
    /\ InitResults
    /\ NoRequest
    /\ NoCardRequests
    /\ NoBrowser
    /\ NoSockets

CallAnalyzePriority ==
    /\ pc = "call"
    /\ UNCHANGED <<accessVars, outerVars>>
    /\ variant = "card"
    /\ priorityRec' = analyzePriority(CardText(card), card)
    /\ pc' = "done"
    /\ UNCHANGED <<card, lists, cards, now, variant, loaded, dueDateRec,
                   listMovementRec, relatedCardsRec, response>>

CallSuggestPriority ==
    /\ pc = "call"
    /\ UNCHANGED <<accessVars, outerVars>>
    /\ variant = "cardId"
    /\ priorityRec' = suggestPriority(card)
    /\ pc' = "done"
    /\ UNCHANGED <<card, lists, cards, now, variant, loaded, dueDateRec,
                   listMovementRec, relatedCardsRec, response>>

NextPriority == CallAnalyzePriority \/ CallSuggestPriority

SpecPriority == InitPriority /\ [][NextPriority]_vars

-----------------------------------------------------------------------------
(* The related-card finders applied to every subject and sibling collection *)

InitRelated ==
    /\ \E t \in RelTitles : card = CardDoc(t, <<>>, Null, "medium", ObjectId(1))
    /\ now = Midnight
    /\ lists = FirstBoard
    /\ cards \in SiblingCollections
    /\ variant \in Variants
    /\ pc = "call"
    /\ InitResults
    /\ NoRequest
    /\ NoCardRequests
    /\ NoBrowser
    /\ NoSockets

\* findRelatedCards(card, boardCards) on the siblings generateRecommendations
\* queried
CallFindRelatedCards ==
    /\ pc = "call"
    /\ UNCHANGED <<accessVars, outerVars>>
    /\ variant = "card"
    /\ loaded' = [loaded EXCEPT !.boardCards = SiblingQuery(cards, card)]
    /\ relatedCardsRec' = findRelatedCards(card, loaded'.boardCards)
    /\ pc' = "done"
    /\ UNCHANGED <<card, lists, cards, now, variant, dueDateRec, listMovementRec,
                   priorityRec, response>>

\* findRelatedCards(card) with its own query
CallFindRelatedCardsTfIdf ==
    /\ pc = "call"
    /\ UNCHANGED <<accessVars, outerVars>>
    /\ variant = "cardId"
    /\ loaded' = [loaded EXCEPT !.boardCards = SiblingQueryLimited(cards, card)]
    /\ relatedCardsRec' = findRelatedCardsTfIdf(card, loaded'.boardCards)
    /\ pc' = "done"
    /\ UNCHANGED <<card, lists, cards, now, variant, dueDateRec, listMovementRec,
                   priorityRec, response>>

NextRelated == CallFindRelatedCards \/ CallFindRelatedCardsTfIdf

SpecRelated == InitRelated /\ [][NextRelated]_vars

-----------------------------------------------------------------------------
(* generateRecommendations, both variants, on stored boards *)

MainFragments == { <<"u","r","g","e","n","t">>, <<"f","i","n","i","s","h","e","d">>, <<"d","e","p","l","o","y">>, <<"F","i","x">> }
MainTitles == TextsOf(MainFragments, MaxTitleWords)

\* The List collection: the subject's board and a list of another board
MainLists ==
    FirstBoard \o
    << [_id |-> ObjectId(4), title |-> <<"B","l","o","c","k","e","d">>, board |-> OtherBoard,
        isArchived |-> FALSE] >>

\* More cards of the subject's board than the limit of a sibling query
FullBoard ==
    [i \in 1..(QueryLimit + 1) |-> SiblingDoc(200 + i, <<"d","e","p","l","o","y">>, ThisBoard, FALSE)]

\* The stored cards besides the subject: none, one, five of which one is
\* archived and one is on another board, or a full board
MainSiblings ==
    { <<>>,
      FullBoard,
      << SiblingDoc(11, <<"u","r","g","e","n","t"," ","d","e","p","l","o","y">>, ThisBoard, FALSE) >>,
      << SiblingDoc(11, <<"d","e","p","l","o","y">>, ThisBoard, FALSE),
         SiblingDoc(12, <<"d","e","p","l","o","y">>, ThisBoard, TRUE),
         SiblingDoc(13, <<"d","e","p","l","o","y">>, OtherBoard, FALSE),
         SiblingDoc(14, <<"f","i","n","i","s","h","e","d"," ","d","e","p","l","o","y">>, ThisBoard, FALSE),
         SiblingDoc(15, <<"u","r","g","e","n","t"," ","f","i","n","i","s","h","e","d">>, ThisBoard, FALSE) >> }

Init ==
    /\ \E t \in MainTitles, d \in {UndefinedStr, <<>>}, due \in DueDates,
          p \in {"medium", "high"}, l \in {Null, ObjectId(1)} :
          card = CardDoc(t, d, due, p, l)
    /\ now = Midnight
    /\ lists = MainLists
    /\ \E others \in MainSiblings :
          /\ cards = <<card>> \o others
          \* the full board is the board of the plain cards only
          /\ others = FullBoard =>
                card = CardDoc(card.title, <<>>, Null, "medium", ObjectId(1))
    /\ variant \in Variants
    /\ pc = "idle"
    /\ InitResults
    /\ NoRequest
    /\ NoCardRequests
    /\ NoBrowser
    /\ NoSockets

\* A rejected query
DataAccessError == [throws |-> "DataAccessError"]

\* The non-null values of results, in order: what the if (x) suggestions.push(x)
\* statements leave in suggestions
NonNull(results) ==
    LET Kept(i) == results[i] # Null
        kept == SelectSeq([i \in 1..Len(results) |-> i], Kept)
    IN  [k \in 1..Len(kept) |-> results[kept[k]]]

\* The order generateRecommendations(card) pushes its results in, with the
\* last two exchanged
SuggestionsInOrder_RelatedFirst(due, movement, priority, related) ==
    NonNull(<<due, movement, related, priority>>)
SuggestionsInOrder(due, movement, priority, related) ==
    NonNull(<<due, movement, priority, related>>)

\* The collection a find query was run on, after the query: find, findById
\* and populate only read (no update, save or delete is issued)
AfterFind_Deleted(collection) == SubSeq(collection, 1, 0)
AfterFind(collection) == collection

\* The call generateRecommendations(card) starts: its first query is issued
GenerateForCard ==
    /\ pc = "idle"
    /\ UNCHANGED <<accessVars, outerVars>>
    /\ variant = "card"
    /\ pc' = "awaitCards"
    /\ UNCHANGED <<card, lists, cards, now, variant, loaded, dueDateRec,
                   listMovementRec, priorityRec, relatedCardsRec, response>>

\* await Card.find(...) resolves; List.find is issued
CardsFound ==
    /\ pc = "awaitCards"
    /\ UNCHANGED <<accessVars, outerVars>>
    /\ loaded' = [loaded EXCEPT !.boardCards = SiblingQuery(cards, card)]
    /\ cards' = AfterFind(cards)
    /\ pc' = "awaitLists"
    /\ UNCHANGED <<card, lists, now, variant, dueDateRec, listMovementRec,
                   priorityRec, relatedCardsRec, response>>

\* a query of generateRecommendations(card) rejects: catch logs and rethrows
QueryFails ==
    /\ pc \in {"awaitCards", "awaitLists"}
    /\ UNCHANGED <<accessVars, outerVars>>
    /\ loaded' = [loaded EXCEPT !.error = DataAccessError]
    /\ response' = [status |-> "rejected", error |-> loaded'.error]
    /\ pc' = "done"
    /\ UNCHANGED <<card, lists, cards, now, variant, dueDateRec,
                   listMovementRec, priorityRec, relatedCardsRec>>

\* await List.find(...) resolves: the four suggesters run and the call
\* returns, or analyzeListMovement throws and catch rethrows.  The argument
\* is the card as getCardRecommendations loaded it, with its list populated.
ListsFound ==
    /\ pc = "awaitLists"
    /\ UNCHANGED <<accessVars, outerVars>>
    /\ lists' = AfterFind(lists)
    /\ LET subject == Populated(card, lists)
           boardLists == ListQuery(lists, card)
           cardText == CardText(subject)
           due == analyzeDueDate(cardText, subject)
           movement == analyzeListMovement(cardText, subject, boardLists)
           priority == analyzePriority(cardText, subject)
           related == findRelatedCards(subject, loaded.boardCards)
       IN  /\ loaded' = [loaded EXCEPT !.lists = boardLists, !.card = subject,
                                       !.error = IF movement = TypeError
                                                 THEN TypeError ELSE @]
           /\ dueDateRec' = due
           /\ listMovementRec' = movement
           /\ IF movement = TypeError
              THEN /\ response' = [status |-> "rejected", error |-> TypeError]
                   /\ UNCHANGED <<priorityRec, relatedCardsRec>>
              ELSE /\ priorityRec' = priority
                   /\ relatedCardsRec' = related
                   /\ response' =
                        [status |-> "fulfilled",
                         value |-> [cardId |-> card._id,
                                    suggestions |->
                                        SuggestionsInOrder(due, movement, priority, related),
                                    analyzedAt |-> NewDate]]
    /\ pc' = "done"
    /\ UNCHANGED <<card, cards, now, variant>>

\* The call generateRecommendations(cardId) starts: Card.findById is issued
GenerateForCardId ==
    /\ pc = "idle"
    /\ UNCHANGED <<accessVars, outerVars>>
    /\ variant = "cardId"
    /\ pc' = "awaitCard"
    /\ UNCHANGED <<card, lists, cards, now, variant, loaded, dueDateRec,
                   listMovementRec, priorityRec, relatedCardsRec, response>>

\* await Card.findById(cardId).populate('list') resolves with the card:
\* suggestDueDate and suggestListMovement run, findRelatedCards issues its query
CardFound ==
    /\ pc = "awaitCard"
    /\ UNCHANGED <<accessVars, outerVars>>
    /\ LET found == Populated(card, lists)
       IN  /\ loaded' = [loaded EXCEPT !.card = found]
           /\ dueDateRec' = suggestDueDate(found)
           /\ listMovementRec' = suggestListMovement(found)
    /\ cards' = AfterFind(cards)
    /\ lists' = AfterFind(lists)
    /\ pc' = "awaitSiblings"
    /\ UNCHANGED <<card, now, variant, priorityRec, relatedCardsRec, response>>

\* Card.findById resolves with null (the card is gone) or rejects: the call
\* returns null either way
CardNotFound ==
    /\ pc = "awaitCard"
    /\ UNCHANGED <<accessVars, outerVars>>
    /\ response' = [status |-> "fulfilled", value |-> Null]
    /\ pc' = "done"
    /\ UNCHANGED <<card, lists, cards, now, variant, loaded, dueDateRec,
                   listMovementRec, priorityRec, relatedCardsRec>>

\* What generateRecommendations(cardId) returns once findRelatedCards gave
\* relatedCards
ReturnForCardId(relatedCards) ==
    LET priority == suggestPriority(loaded.card)
        relatedSuggestion ==
            IF Len(relatedCards) > 0
            THEN [type |-> "related_cards", title |-> "Related Cards",
                  description |->
                    "These cards have similar content and might be grouped together",
                  cards |-> relatedCards, confidence |-> "medium"]
            ELSE Null
    IN  /\ relatedCardsRec' = relatedCards
        /\ priorityRec' = priority
        /\ response' =
             [status |-> "fulfilled",
              value |-> [cardId |-> loaded.card._id,
                         suggestions |->
                            NonNull(<<dueDateRec, listMovementRec,
                                      relatedSuggestion, priority>>)]]
        /\ pc' = "done"
        /\ UNCHANGED <<card, lists, now, variant, dueDateRec, listMovementRec>>

\* the query of findRelatedCards(card) resolves
SiblingsFound ==
    /\ pc = "awaitSiblings"
    /\ UNCHANGED <<accessVars, outerVars>>
    /\ loaded' = [loaded EXCEPT !.boardCards = SiblingQueryLimited(cards, loaded.card)]
    /\ cards' = AfterFind(cards)
    /\ ReturnForCardId(findRelatedCardsTfIdf(loaded.card, loaded'.boardCards))

\* the query of findRelatedCards(card) rejects: its catch logs and returns []
SiblingsQueryFails ==
    /\ pc = "awaitSiblings"
    /\ UNCHANGED <<accessVars, outerVars>>
    /\ loaded' = [loaded EXCEPT !.error = DataAccessError]
    /\ UNCHANGED cards
    /\ ReturnForCardId(<<>>)

Next ==
    \/ GenerateForCard
    \/ CardsFound
    \/ QueryFails
    \/ ListsFound
    \/ GenerateForCardId
    \/ CardFound
    \/ CardNotFound
    \/ SiblingsFound
    \/ SiblingsQueryFails

Spec == Init /\ [][Next]_vars

-----------------------------------------------------------------------------
(* The card controllers that call generateRecommendations:                  *)
(* getCardRecommendations calls generateRecommendations(card);              *)
(* getRecommendations, createCard and updateCard of cardController.js call  *)
(* generateRecommendations(cardId).                                         *)

\* Model.findById(id): the document with that _id, or null
FindById(collection, id) ==
    LET doc == Find(collection,
                    [i \in 1..Len(collection) |-> collection[i]._id = id])
    IN  IF doc = Undefined THEN Null ELSE doc

\* board.isMember(userId), answering true for every user
isMember_Always(board, userId) == TRUE
isMember(board, userId) ==
    \/ \E i \in 1..Len(board.members) :
          toString(board.members[i].user) = toString(userId)
    \/ toString(board.owner) = toString(userId)

Users == {Owner, Member, Outsider}
\* An id that no stored document has
MissingId == ObjectId(99)
\* The id Card.create gives the new card
NewCardId == ObjectId(20)

\* req.body of updateCard: a new title; a new description and priority
UpdateBodies ==
    { [title |-> <<"f","i","n","i","s","h","e","d">>],
      [description |-> <<"a","s","a","p">>, priority |-> "high"] }

\* req.body of createCard: a list and a board, each stored or not, the list on
\* the named board or on the other one
CreateBodies ==
    { [title |-> <<"u","r","g","e","n","t">>, listId |-> l, boardId |-> b] :
        l \in {ObjectId(1), ObjectId(4), MissingId},
        b \in {ThisBoard, OtherBoard, MissingId} }

\* The requests of authenticated users (router.use(protect)) that reach a
\* handler calling generateRecommendations
Requests ==
    IF variant = "card"
    THEN { [handler |-> "getCardRecommendations", user |-> u, id |-> id] :
             u \in Users, id \in {SubjectId, MissingId} }
    ELSE { [handler |-> "getRecommendations", user |-> u, id |-> id] :
             u \in Users, id \in {SubjectId, MissingId} }
         \cup { [handler |-> "updateCard", user |-> u, id |-> id, body |-> b] :
                  u \in Users, id \in {SubjectId, MissingId}, b \in UpdateBodies }
         \cup { [handler |-> "createCard", user |-> u, body |-> b] :
                  u \in Users, b \in CreateBodies }

\* The lists ls with the cards array each holds for the stored cards cs
ListsOf(ls, cs) ==
    [i \in 1..Len(ls) |->
        LET InList(c) == c.list = ls[i]._id
            held == SelectSeq(cs, InList)
        IN  [_id |-> ls[i]._id, title |-> ls[i].title, board |-> ls[i].board,
             isArchived |-> ls[i].isArchived,
             cards |-> [k \in 1..Len(held) |-> held[k]._id]]]

AccessTitles == { <<"u","r","g","e","n","t">>, <<"f","i","n","i","s","h","e","d"," ","d","e","p","l","o","y">> }

InitAccess ==
    /\ \E t \in AccessTitles : card = CardDoc(t, <<>>, Null, "medium", ObjectId(1))
    /\ now = Midnight
    /\ \E others \in {<<>>, << SiblingDoc(11, <<"u","r","g","e","n","t"," ","d","e","p","l","o","y">>, ThisBoard, FALSE) >>} :
          cards = <<card>> \o others
    /\ lists = ListsOf(MainLists, cards)
    /\ variant \in Variants
    /\ pc = "uncalled"
    /\ InitResults
    /\ NoRequest
    /\ NoCardRequests
    /\ NoBrowser
    /\ NoSockets

\* res.status(status).json(body)
Send(status, body) ==
    /\ res' = [status |-> status, body |-> body]
    /\ hpc' = "sent"

\* A request arrives at its handler, which issues its first query
Receive ==
    /\ hpc = "none"
    /\ \E r \in Requests : req' = r
    /\ hpc' = IF req'.handler = "createCard" THEN "findBoard" ELSE "findCard"
    /\ UNCHANGED <<card, lists, cards, now, variant, pc, loaded, dueDateRec,
                   listMovementRec, priorityRec, relatedCardsRec, response,
                   boards, res>>
    /\ UNCHANGED outerVars

\* await Card.findById(req.params.id) resolves
CardLookup ==
    /\ hpc = "findCard"
    /\ IF FindById(cards, req.id) = Null
       THEN Send(404, [success |-> FALSE, message |-> "Card not found"])
       ELSE /\ hpc' = "findBoard"
            /\ UNCHANGED res
    /\ UNCHANGED <<card, lists, cards, now, variant, pc, loaded, dueDateRec,
                   listMovementRec, priorityRec, relatedCardsRec, response,
                   boards, req>>
    /\ UNCHANGED outerVars

\* The id of the board the handler looks up: req.body.boardId in createCard,
\* card.board otherwise
BoardIdOf(r) ==
    IF r.handler = "createCard" THEN r.body.boardId ELSE card.board

\* await Board.findById(...) resolves and the handler verifies board access:
\* getCardRecommendations calls board.isMember without testing board, the
\* handlers of cardController.js test !board || !board.isMember(...).  With
\* access, getRecommendations and getCardRecommendations call the service.
AccessCheck ==
    /\ hpc = "findBoard"
    /\ LET board == FindById(boards, BoardIdOf(req))
       IN  IF board = Null /\ req.handler = "getCardRecommendations"
           THEN /\ Send(500, [success |-> FALSE,
                              message |-> "Error fetching recommendations",
                              error |-> TypeError])
                /\ UNCHANGED pc
           ELSE IF board = Null \/ ~isMember(board, req.user)
           THEN /\ Send(403, [success |-> FALSE, message |-> "Access denied"])
                /\ UNCHANGED pc
           ELSE /\ hpc' = CASE req.handler = "createCard" -> "findList"
                            [] req.handler = "updateCard" -> "save"
                            [] OTHER -> "generate"
                /\ pc' = IF hpc' = "generate" THEN "idle" ELSE pc
                /\ UNCHANGED res
    /\ UNCHANGED <<card, lists, cards, now, variant, loaded, dueDateRec,
                   listMovementRec, priorityRec, relatedCardsRec, response,
                   boards, req>>
    /\ UNCHANGED outerVars

\* createCard after the access check: List.findById, Card.create,
\* list.cards.push and list.save, then the call of the service.  A list that
\* is not found makes list.cards throw before anything is stored.
StoreNewCard ==
    /\ hpc = "findList"
    /\ LET list == FindById(lists, req.body.listId)
           created ==
               [_id |-> NewCardId,
                title |-> req.body.title,
                description |-> IF "description" \in DOMAIN req.body
                                   /\ req.body.description # <<>>
                                THEN req.body.description ELSE <<>>,
                list |-> req.body.listId,
                board |-> req.body.boardId,
                position |-> Len(list.cards),
                dueDate |-> IF "dueDate" \in DOMAIN req.body
                            THEN req.body.dueDate ELSE Null,
                priority |-> IF "priority" \in DOMAIN req.body
                             THEN req.body.priority ELSE "medium",
                isArchived |-> FALSE,
                createdBy |-> req.user]
       IN  IF list = Null
           THEN /\ Send(500, [success |-> FALSE,
                              message |-> "Error creating card",
                              error |-> TypeError])
                /\ UNCHANGED <<card, cards, lists, pc>>
           ELSE /\ card' = created
                /\ cards' = Append(cards, created)
                /\ lists' = [i \in 1..Len(lists) |->
                               IF lists[i]._id = list._id
                               THEN [lists[i] EXCEPT !.cards = Append(@, NewCardId)]
                               ELSE lists[i]]
                /\ hpc' = "generate"
                /\ pc' = "idle"
                /\ UNCHANGED res
    /\ UNCHANGED <<now, variant, loaded, dueDateRec, listMovementRec,
                   priorityRec, relatedCardsRec, response, boards, req>>
    /\ UNCHANGED outerVars

\* The card of updateCard with the fields of req.body assigned
Updated(c, body) ==
    [c EXCEPT
        !.title = IF "title" \in DOMAIN body /\ body.title # <<>>
                  THEN body.title ELSE @,
        !.description = IF "description" \in DOMAIN body
                        THEN body.description ELSE @,
        !.dueDate = IF "dueDate" \in DOMAIN body THEN body.dueDate ELSE @,
        !.priority = IF "priority" \in DOMAIN body THEN body.priority ELSE @]

\* updateCard after the access check: the fields are assigned, card.save(),
\* then the call of the service
SaveCard ==
    /\ hpc = "save"
    /\ card' = Updated(card, req.body)
    /\ cards' = [i \in 1..Len(cards) |->
                    IF cards[i]._id = card._id THEN card' ELSE cards[i]]
    /\ hpc' = "generate"
    /\ pc' = "idle"
    /\ UNCHANGED <<lists, now, variant, loaded, dueDateRec, listMovementRec,
                   priorityRec, relatedCardsRec, response, boards, req, res>>
    /\ UNCHANGED outerVars

\* await generateRecommendations(...) settles: the handler answers with the
\* recommendations, or its catch answers 500
Respond ==
    /\ hpc = "generate"
    /\ pc = "done"
    /\ IF response.status = "rejected"
       THEN Send(500, [success |-> FALSE, error |-> response.error])
       ELSE CASE req.handler = "createCard" ->
                   Send(201, [success |-> TRUE,
                              data |-> [card |-> card,
                                        recommendations |-> response.value]])
              [] req.handler = "updateCard" ->
                   Send(200, [success |-> TRUE,
                              data |-> [card |-> card,
                                        recommendations |-> response.value]])
              [] OTHER ->
                   Send(200, [success |-> TRUE, data |-> response.value])
    /\ UNCHANGED <<card, lists, cards, now, variant, pc, loaded, dueDateRec,
                   listMovementRec, priorityRec, relatedCardsRec, response,
                   boards, req>>
    /\ UNCHANGED outerVars

NextAccess ==
    \/ Receive
    \/ CardLookup
    \/ AccessCheck
    \/ StoreNewCard
    \/ SaveCard
    \/ GenerateForCard
    \/ CardsFound
    \/ QueryFails
    \/ ListsFound
    \/ GenerateForCardId
    \/ CardFound
    \/ CardNotFound
    \/ SiblingsFound
    \/ SiblingsQueryFails
    \/ Respond

SpecAccess == InitAccess /\ [][NextAccess]_vars
-----------------------------------------------------------------------------
(* Card bookkeeping: createCard, moveCard and deleteCard of the two card    *)
(* controllers, each request advancing from one await to the next, so that *)
(* the requests of two connections interleave as the event loop allows.    *)
(* The requester is a member of the board: Board.findById and isMember     *)
(* read no list and no card and are left out of the steps.                 *)

\* Bounds: the requests that are made, and the positions a request names
MaxCalls == 3
MaxPosition == 1

BookLists == {ObjectId(1), ObjectId(2)}
MissingList == ObjectId(9)
BookCardIds == {ObjectId(11), ObjectId(12), ObjectId(13)}

\* The id Card.create gives to the n-th card
NewId(n) == ObjectId(10 + n)

\* req.body and req.params of the card requests.  moveCard names the target
\* list (newListId, or listId in the second controller), which may be a list
\* that does not exist or be absent, and the position.
CardRequests ==
    { [handler |-> "createCard", listId |-> l] : l \in BookLists }
    \cup { [handler |-> "moveCard", id |-> c, listId |-> l, position |-> n] :
             c \in BookCardIds, l \in BookLists \cup {MissingList, Undefined},
             n \in 0..MaxPosition }
    \cup { [handler |-> "deleteCard", id |-> c] : c \in BookCardIds }

\* A stored list of the bookkeeping: its cards array and its version key __v
BookList(n) == [_id |-> ObjectId(n), cards |-> <<>>, version |-> 0]

InitCards ==
    /\ card = Null
    /\ cards = <<>>
    /\ lists = << BookList(1), BookList(2) >>
    /\ now = Midnight
    /\ variant = "cardId"
    /\ pc = "uncalled"
    /\ InitResults
    /\ NoRequest
    /\ controller \in CardControllers
    /\ calls = [p \in Connections |-> NoCall]
    /\ book = NoHistory
    /\ NoBrowser
    /\ NoSockets

\* Array.prototype.splice(start, 1)
SpliceOut(arr, start) ==
    IF start >= Len(arr) THEN arr
    ELSE SubSeq(arr, 1, start) \o SubSeq(arr, start + 2, Len(arr))

\* Array.prototype.splice(start, 0, item)
SpliceIn(arr, start, item) ==
    LET at == IF start > Len(arr) THEN Len(arr) ELSE start
    IN  SubSeq(arr, 1, at) \o <<item>> \o SubSeq(arr, at + 1, Len(arr))

\* { $pull: { cards: id } }: every occurrence of id leaves the array
Pull(arr, id) ==
    LET Other(x) == x # id
    IN  SelectSeq(arr, Other)

\* The collection with document doc stored in place of the one of its _id
Replace(collection, doc) ==
    [i \in 1..Len(collection) |->
        IF collection[i]._id = doc._id THEN doc ELSE collection[i]]

\* The collection without the document of this _id
Remove(collection, id) ==
    LET Other(d) == d._id # id
    IN  SelectSeq(collection, Other)

\* List.findByIdAndUpdate(id, { $pull: ... }) and { $push: ... }: one atomic
\* update of the stored array, doing nothing when no list has the id
PullFromList(id, cardId) ==
    [i \in 1..Len(lists) |->
        IF lists[i]._id = id
        THEN [lists[i] EXCEPT !.cards = Pull(@, cardId)] ELSE lists[i]]

PushToList(id, cardId) ==
    [i \in 1..Len(lists) |->
        IF lists[i]._id = id
        THEN [lists[i] EXCEPT !.cards = Append(@, cardId)] ELSE lists[i]]

\* list.save() after list.cards.push(id): mongoose sends the push as a $push
\* of the stored array and increments the version key
SavePushed(id, cardId) ==
    [i \in 1..Len(lists) |->
        IF lists[i]._id = id
        THEN [lists[i] EXCEPT !.cards = Append(@, cardId), !.version = @ + 1]
        ELSE lists[i]]

\* list.save() after list.cards.splice(...): mongoose sets the whole array
\* where the version key is still the one it read, and fails with a
\* VersionError otherwise
StoredVersionIs(list) ==
    /\ FindById(lists, list._id) # Null
    /\ FindById(lists, list._id).version = list.version

\* Card.findOne({ list: listId }).sort({ position: -1 })
LastCard(listId) ==
    LET inList == { i \in 1..Len(cards) : cards[i].list = listId }
    IN  IF inList = {} THEN Null
        ELSE cards[CHOOSE i \in inList :
                     \A j \in inList : cards[j].position <= cards[i].position]

\* The handler of connection p sends its response and returns
Answer(p, status) ==
    /\ calls' = [calls EXCEPT ![p] = NoCall]
    /\ book' = [book EXCEPT !.failed = @ \/ status >= 400]

Goto(p, position, locals) ==
    calls' = [calls EXCEPT ![p] = [pc |-> position] @@ locals]

\* What the other actions leave alone
OutsideBook ==
    UNCHANGED <<card, now, variant, pc, loaded, dueDateRec, listMovementRec,
                priorityRec, relatedCardsRec, response, boards, req, res, hpc,
                controller, frontVars, socketVars>>

\* A request arrives on an idle connection and its handler issues its first
\* query
StartCall(p) ==
    /\ calls[p] = NoCall
    /\ book.started < MaxCalls
    /\ \E r \in CardRequests :
          /\ Goto(p, IF r.handler = "createCard" THEN "findList" ELSE "findCard",
                  [req |-> r])
          /\ book' = [book EXCEPT
                        !.started = @ + 1,
                        !.handlers = @ \cup {r.handler},
                        !.overlapped =
                            @ \/ \E q \in Connections \ {p} : calls[q] # NoCall]
    /\ UNCHANGED <<cards, lists>>
    /\ OutsideBook

\* createCard: await List.findById(listId) resolves.  cardController.js takes
\* list.cards.length as the position; the second controller goes on to ask
\* for the last card of the list.
CreateFindList(p) ==
    /\ calls[p].pc = "findList"
    /\ LET list == FindById(lists, calls[p].req.listId)
       IN  IF controller = "cardController"
           THEN Goto(p, "create", [req |-> calls[p].req,
                                   position |-> Len(list.cards)])
           ELSE Goto(p, "findLast", [req |-> calls[p].req])
    /\ UNCHANGED <<cards, lists, book>>
    /\ OutsideBook

\* createCard of the second controller: await Card.findOne(...).sort(...)
\* resolves
CreateFindLast(p) ==
    /\ calls[p].pc = "findLast"
    /\ LET lastCard == LastCard(calls[p].req.listId)
       IN  Goto(p, "create",
                [req |-> calls[p].req,
                 position |-> IF lastCard # Null THEN lastCard.position + 1
                              ELSE 0])
    /\ UNCHANGED <<cards, lists, book>>
    /\ OutsideBook

\* createCard: await Card.create({...}) resolves
CreateCard(p) ==
    /\ calls[p].pc = "create"
    /\ LET created == [_id |-> NewId(book.created + 1),
                       list |-> calls[p].req.listId,
                       position |-> calls[p].position]
       IN  /\ cards' = Append(cards, created)
           /\ Goto(p, "saveList", [req |-> calls[p].req, card |-> created])
    /\ book' = [book EXCEPT !.created = @ + 1]
    /\ UNCHANGED lists
    /\ OutsideBook

\* createCard: list.cards.push(card._id) and await list.save() resolves; the
\* handler answers 201
CreateSaveList(p) ==
    /\ calls[p].pc = "saveList"
    /\ lists' = SavePushed(calls[p].req.listId, calls[p].card._id)
    /\ Answer(p, 201)
    /\ UNCHANGED cards
    /\ OutsideBook

\* moveCard and deleteCard: await Card.findById(req.params.id) resolves
FindCard(p) ==
    /\ calls[p].pc = "findCard"
    /\ LET found == FindById(cards, calls[p].req.id)
           r == calls[p].req
       IN  IF found = Null
           THEN Answer(p, 404)
           ELSE /\ UNCHANGED book
                /\ Goto(p, CASE r.handler = "deleteCard" -> "pull"
                             [] controller = "cardController" -> "findOldList"
                             [] r.listId # Undefined /\ r.listId # found.list
                                  -> "pull"
                             [] OTHER -> "saveCard",
                        [req |-> r, card |-> found])
    /\ UNCHANGED <<cards, lists>>
    /\ OutsideBook

\* moveCard of cardController.js: await List.findById(oldListId) resolves
\* and oldList.cards.splice(oldPosition, 1) is applied to the document read
MoveFindOldList(p) ==
    /\ calls[p].pc = "findOldList"
    /\ LET oldList == FindById(lists, calls[p].card.list)
       IN  IF oldList = Null
           THEN Answer(p, 500)
           ELSE /\ UNCHANGED book
                /\ Goto(p, "saveOldList",
                        [req |-> calls[p].req, card |-> calls[p].card,
                         list |-> [oldList EXCEPT
                            !.cards = SpliceOut(@, calls[p].card.position)]])
    /\ UNCHANGED <<cards, lists>>
    /\ OutsideBook

\* moveCard of cardController.js: await oldList.save() settles
MoveSaveOldList(p) ==
    /\ calls[p].pc = "saveOldList"
    /\ IF StoredVersionIs(calls[p].list)
       THEN /\ lists' = Replace(lists, [calls[p].list EXCEPT !.version = @ + 1])
            /\ Goto(p, "findNewList",
                    [req |-> calls[p].req, card |-> calls[p].card])
            /\ UNCHANGED book
       ELSE /\ Answer(p, 500)
            /\ UNCHANGED lists
    /\ UNCHANGED cards
    /\ OutsideBook

\* moveCard of cardController.js: await List.findById(newListId) resolves
\* and newList.cards.splice(newPosition, 0, card._id) is applied; without
\* such a list newList.cards throws
MoveFindNewList(p) ==
    /\ calls[p].pc = "findNewList"
    /\ LET newList == FindById(lists, calls[p].req.listId)
       IN  IF newList = Null
           THEN Answer(p, 500)
           ELSE /\ UNCHANGED book
                /\ Goto(p, "saveNewList",
                        [req |-> calls[p].req, card |-> calls[p].card,
                         list |-> [newList EXCEPT
                            !.cards = SpliceIn(@, calls[p].req.position,
                                               calls[p].card._id)]])
    /\ UNCHANGED <<cards, lists>>
    /\ OutsideBook

\* moveCard of cardController.js: await newList.save() settles; card.list and
\* card.position are assigned
MoveSaveNewList(p) ==
    /\ calls[p].pc = "saveNewList"
    /\ IF StoredVersionIs(calls[p].list)
       THEN /\ lists' = Replace(lists, [calls[p].list EXCEPT !.version = @ + 1])
            /\ Goto(p, "saveCard",
                    [req |-> calls[p].req,
                     card |-> [calls[p].card EXCEPT
                                 !.list = calls[p].req.listId,
                                 !.position = calls[p].req.position]])
            /\ UNCHANGED book
       ELSE /\ Answer(p, 500)
            /\ UNCHANGED lists
    /\ UNCHANGED cards
    /\ OutsideBook

\* moveCard of the second controller and deleteCard: await
\* List.findByIdAndUpdate(card.list, { $pull: { cards: card._id } }) resolves
PullCard(p) ==
    /\ calls[p].pc = "pull"
    /\ lists' = PullFromList(calls[p].card.list, calls[p].card._id)
    /\ Goto(p, IF calls[p].req.handler = "deleteCard" THEN "delete" ELSE "push",
            [req |-> calls[p].req, card |-> calls[p].card])
    /\ UNCHANGED <<cards, book>>
    /\ OutsideBook

\* moveCard of the second controller: await List.findByIdAndUpdate(listId,
\* { $push: { cards: card._id } }) resolves and card.list = listId
PushCard(p) ==
    /\ calls[p].pc = "push"
    /\ lists' = PushToList(calls[p].req.listId, calls[p].card._id)
    /\ Goto(p, "saveCard",
            [req |-> calls[p].req,
             card |-> [calls[p].card EXCEPT !.list = calls[p].req.listId]])
    /\ UNCHANGED <<cards, book>>
    /\ OutsideBook

\* moveCard: card.position is assigned and await card.save() settles: the
\* list and position of the stored card are set, or the card is gone
MoveSaveCard(p) ==
    /\ calls[p].pc = "saveCard"
    /\ LET stored == FindById(cards, calls[p].card._id)
       IN  IF stored = Null
           THEN /\ Answer(p, 500)
                /\ UNCHANGED cards
           ELSE /\ cards' = Replace(cards,
                        [stored EXCEPT !.list = calls[p].card.list,
                                       !.position = calls[p].req.position])
                /\ Answer(p, 200)
    /\ UNCHANGED lists
    /\ OutsideBook

\* deleteCard: await card.deleteOne() (Card.findByIdAndDelete in the second
\* controller) resolves; the handler answers 200
DeleteCard(p) ==
    /\ calls[p].pc = "delete"
    /\ cards' = Remove(cards, calls[p].card._id)
    /\ Answer(p, 200)
    /\ UNCHANGED lists
    /\ OutsideBook

NextCards ==
    \E p \in Connections :
        \/ StartCall(p)
        \/ CreateFindList(p)
        \/ CreateFindLast(p)
        \/ CreateCard(p)
        \/ CreateSaveList(p)
        \/ FindCard(p)
        \/ MoveFindOldList(p)
        \/ MoveSaveOldList(p)
        \/ MoveFindNewList(p)
        \/ MoveSaveNewList(p)
        \/ PullCard(p)
        \/ PushCard(p)
        \/ MoveSaveCard(p)
        \/ DeleteCard(p)

SpecCards == InitCards /\ [][NextCards]_vars

-----------------------------------------------------------------------------
(* Board membership: createBoard, inviteMember and removeMember of          *)
(* boardController.js, each request advancing from one await to the next.  *)

\* Bound: the boards that are created
MaxBoards == 1

\* The id Board.create gives to the n-th board
NewBoardId(n) == ObjectId(n)

\* The User collection: the email of each user
Emails == {"owner@", "member@", "outsider@"}
UserOfEmail(email) ==
    CASE email = "owner@" -> [_id |-> Owner]
      [] email = "member@" -> [_id |-> Member]
      [] email = "outsider@" -> [_id |-> Outsider]
      [] OTHER -> Null

\* req.user, req.params and req.body of the board requests
BoardRequests ==
    { [handler |-> "createBoard", user |-> u] : u \in Users }
    \cup { [handler |-> "inviteMember", user |-> u, id |-> b, email |-> e] :
             u \in Users, b \in {ThisBoard, OtherBoard},
             e \in Emails \cup {"nobody@"} }
    \cup { [handler |-> "removeMember", user |-> u, id |-> b,
            userId |-> toString(v)] :
             u \in Users, b \in {ThisBoard, OtherBoard}, v \in Users }

InitMembers ==
    /\ card = Null
    /\ cards = <<>>
    /\ lists = <<>>
    /\ now = Midnight
    /\ variant = "cardId"
    /\ pc = "uncalled"
    /\ InitResults
    /\ boards = <<>>
    /\ req = NotRun
    /\ res = NotRun
    /\ hpc = "none"
    /\ controller = "cardController"
    /\ calls = [p \in Connections |-> NoCall]
    /\ book = NoHistory
    /\ NoBrowser
    /\ NoSockets

\* board.isOwner(userId)
isOwner(board, userId) == toString(board.owner) = toString(userId)

\* board.members.filter(member => member.user.toString() !== userId)
WithoutMember(members, userId) ==
    LET Other(m) == toString(m.user) # userId
    IN  SelectSeq(members, Other)

\* What the board requests leave alone
OutsideBoards ==
    UNCHANGED <<card, lists, cards, now, variant, pc, loaded, dueDateRec,
                listMovementRec, priorityRec, relatedCardsRec, response,
                req, res, hpc, controller, frontVars, socketVars>>

\* A request arrives on an idle connection and its handler issues its first
\* query
StartBoardCall(p) ==
    /\ calls[p] = NoCall
    /\ book.started < MaxCalls
    /\ \E r \in BoardRequests :
          /\ r.handler = "createBoard" => book.created < MaxBoards
          /\ Goto(p, IF r.handler = "createBoard" THEN "create" ELSE "findBoard",
                  [req |-> r])
          /\ book' = [book EXCEPT
                        !.started = @ + 1,
                        !.created = IF r.handler = "createBoard" THEN @ + 1 ELSE @,
                        !.handlers = @ \cup {r.handler},
                        !.overlapped =
                            @ \/ \E q \in Connections \ {p} : calls[q] # NoCall]
    /\ UNCHANGED boards
    /\ OutsideBoards

\* createBoard: await Board.create({...}) resolves with the owner as the only
\* member; the handler answers 201
CreateBoard(p) ==
    /\ calls[p].pc = "create"
    /\ boards' = Append(boards,
            [_id |-> NewBoardId(Len(boards) + 1),
             owner |-> calls[p].req.user,
             members |-> << [user |-> calls[p].req.user, role |-> "owner"] >>,
             version |-> 0])
    /\ Answer(p, 201)
    /\ OutsideBoards

\* inviteMember and removeMember: await Board.findById(req.params.id)
\* resolves; the handler tests the board, the owner and, in removeMember,
\* that the owner is not the one to remove, and filters the members
FindBoard(p) ==
    /\ calls[p].pc = "findBoard"
    /\ LET r == calls[p].req
           board == FindById(boards, r.id)
       IN  IF board = Null THEN Answer(p, 404)
           ELSE IF ~isOwner(board, r.user) THEN Answer(p, 403)
           ELSE IF r.handler = "inviteMember"
           THEN /\ Goto(p, "findUser", [req |-> r, board |-> board])
                /\ UNCHANGED book
           ELSE IF toString(board.owner) = r.userId THEN Answer(p, 400)
           ELSE /\ Goto(p, "saveBoard",
                        [req |-> r,
                         board |-> [board EXCEPT
                            !.members = WithoutMember(@, r.userId)]])
                /\ UNCHANGED book
    /\ UNCHANGED boards
    /\ OutsideBoards

\* inviteMember: await User.findOne({ email }) resolves; the handler tests
\* the user and board.isMember on the board it has read, and pushes the
\* member
FindUser(p) ==
    /\ calls[p].pc = "findUser"
    /\ LET userToInvite == UserOfEmail(calls[p].req.email)
       IN  IF userToInvite = Null THEN Answer(p, 404)
           ELSE IF isMember(calls[p].board, userToInvite._id) THEN Answer(p, 400)
           ELSE /\ Goto(p, "pushMember",
                        [req |-> calls[p].req, board |-> calls[p].board,
                         member |-> [user |-> userToInvite._id,
                                     role |-> "member"]])
                /\ UNCHANGED book
    /\ UNCHANGED boards
    /\ OutsideBoards

\* inviteMember: await board.save() resolves after board.members.push(...):
\* mongoose sends the push as a $push of the stored array and increments the
\* version key; the handler answers 200
SavePushedMember(p) ==
    /\ calls[p].pc = "pushMember"
    /\ boards' = [i \in 1..Len(boards) |->
                    IF boards[i]._id = calls[p].board._id
                    THEN [boards[i] EXCEPT
                            !.members = Append(@, calls[p].member),
                            !.version = @ + 1]
                    ELSE boards[i]]
    /\ Answer(p, 200)
    /\ OutsideBoards

\* removeMember: await board.save() settles after board.members was
\* assigned: mongoose sets the whole array where the version key is still
\* the one it read, and fails with a VersionError otherwise
SaveFilteredMembers(p) ==
    /\ calls[p].pc = "saveBoard"
    /\ IF FindById(boards, calls[p].board._id).version = calls[p].board.version
       THEN /\ boards' = Replace(boards,
                            [calls[p].board EXCEPT !.version = @ + 1])
            /\ Answer(p, 200)
       ELSE /\ Answer(p, 500)
            /\ UNCHANGED boards
    /\ OutsideBoards

NextMembers ==
    \E p \in Connections :
        \/ StartBoardCall(p)
        \/ CreateBoard(p)
        \/ FindBoard(p)
        \/ FindUser(p)
        \/ SavePushedMember(p)
        \/ SaveFilteredMembers(p)

SpecMembers == InitMembers /\ [][NextMembers]_vars

-----------------------------------------------------------------------------
(* The browser: the API client with its interceptors (services/api.js) and *)
(* the auth store (useAuthStore).  A request is sent, answered by the       *)
(* server, and its promise settles; what awaits the promise continues in   *)
(* the step that settles it.  The server's answers are not constrained.    *)

\* Bounds: the requests made through the client, the tokens the server issues
MaxRequests == 2
MaxTokens == 2

Token(n) == [jwt |-> n]
RefreshToken == [refresh |-> 1]
TheUser == [name |-> "user"]

\* Who awaits a request of the client: a page component, or login, register
\* and checkAuth of the auth store
Callers == {"page", "login", "register", "checkAuth"}

\* The statuses of the server's error responses
ErrorStatuses == {401, 500}

\* The request interceptor: the token of localStorage, where there is one,
\* becomes the Authorization header
AttachToken(config) ==
    IF localStorage.token # Null
    THEN [config EXCEPT !.Authorization = localStorage.token]
    ELSE config

\* api(config): the request as it is sent
Sent(by, config) ==
    [pc |-> "sent", by |-> by, config |-> AttachToken(config),
     refreshes |-> 0, replays |-> 0, status |-> 0, refreshToken |-> Null]

\* A new request: the Authorization header is the default one
NewRequest(by, url) ==
    Sent(by, [url |-> url, _retry |-> FALSE, Authorization |-> defaults])

\* The response interceptor's test, refreshing on every 401
ShouldRefresh_Every401(status, config) == status = 401

\* The response interceptor's test:
\* error.response?.status === 401 && !originalRequest._retry
ShouldRefresh(status, config) == status = 401 /\ ~config._retry

\* The browser after the page has loaded: the store is created with the
\* token of localStorage, and checkAuth() has run up to its await
InitBrowser ==
    /\ card = Null
    /\ cards = <<>>
    /\ lists = <<>>
    /\ now = Midnight
    /\ variant = "cardId"
    /\ pc = "uncalled"
    /\ InitResults
    /\ NoRequest
    /\ NoCardRequests
    /\ NoSockets
    /\ localStorage \in {NoStorage,
                         [token |-> Token(0), refreshToken |-> RefreshToken]}
    /\ defaults = Null
    /\ location = "/"
    /\ session = [issued |-> 0, loggedOut |-> FALSE]
    /\ store = [user |-> Null, token |-> localStorage.token,
                loading |-> localStorage.token # Null]
    /\ requests = IF localStorage.token # Null
                  THEN << NewRequest("checkAuth", "/auth/me") >>
                  ELSE <<>>

OutsideBrowser ==
    UNCHANGED <<card, lists, cards, now, variant, pc, loaded, dueDateRec,
                listMovementRec, priorityRec, relatedCardsRec, response,
                boards, req, res, hpc, controller, calls, book, socketVars>>

\* A page component calls the API
PageRequest ==
    /\ Len(requests) < MaxRequests
    /\ requests' = Append(requests, NewRequest("page", "/boards"))
    /\ UNCHANGED <<localStorage, store, defaults, location, session>>
    /\ OutsideBrowser

\* login(credentials) and register(userData) up to their await
Login ==
    /\ Len(requests) < MaxRequests
    /\ \E by \in {"login", "register"} :
          requests' = Append(requests, NewRequest(by, "/auth/" \o by))
    /\ UNCHANGED <<localStorage, store, defaults, location, session>>
    /\ OutsideBrowser

\* checkAuth() up to its await, or to its return when there is no token
CheckAuth ==
    /\ Len(requests) < MaxRequests
    /\ IF localStorage.token = Null
       THEN /\ store' = [store EXCEPT !.loading = FALSE]
            /\ UNCHANGED requests
       ELSE /\ requests' = Append(requests, NewRequest("checkAuth", "/auth/me"))
            /\ UNCHANGED store
    /\ UNCHANGED <<localStorage, defaults, location, session>>
    /\ OutsideBrowser

\* logout()
Logout ==
    /\ localStorage' = NoStorage
    /\ store' = [store EXCEPT !.user = Null, !.token = Null]
    /\ session' = [session EXCEPT !.loggedOut = TRUE]
    /\ UNCHANGED <<defaults, location, requests>>
    /\ OutsideBrowser

\* The promise of request r is rejected: the catch of checkAuth removes the
\* tokens and empties the store; login and register throw to their caller.
\* storage is localStorage as the interceptor has left it.
Rejected(r, status, storage) ==
    /\ requests' = [requests EXCEPT ![r].pc = "rejected", ![r].status = status]
    /\ IF requests[r].by = "checkAuth"
       THEN /\ localStorage' = NoStorage
            /\ store' = [user |-> Null, token |-> Null, loading |-> FALSE]
       ELSE /\ localStorage' = storage
            /\ UNCHANGED store

\* The server answers request r with 2xx and the promise is fulfilled: login
\* and register store the tokens and the user, checkAuth stores the user
Fulfil(r) ==
    /\ requests[r].pc = "sent"
    /\ requests[r].by \in {"login", "register"} => session.issued < MaxTokens
    /\ requests' = [requests EXCEPT ![r].pc = "fulfilled", ![r].status = 200]
    /\ CASE requests[r].by \in {"login", "register"} ->
              /\ localStorage' = [token |-> Token(session.issued + 1),
                                  refreshToken |-> RefreshToken]
              /\ store' = [store EXCEPT !.user = TheUser,
                                        !.token = Token(session.issued + 1)]
              /\ session' = [issued |-> session.issued + 1, loggedOut |-> FALSE]
         [] requests[r].by = "checkAuth" ->
              /\ store' = [store EXCEPT !.user = TheUser, !.loading = FALSE]
              /\ UNCHANGED <<localStorage, session>>
         [] OTHER -> UNCHANGED <<localStorage, store, session>>
    /\ UNCHANGED <<defaults, location>>
    /\ OutsideBrowser

\* The server answers request r with an error, or the request fails without
\* a response: the response interceptor starts a refresh or rejects
Fail(r) ==
    /\ requests[r].pc = "sent"
    /\ \E status \in ErrorStatuses :
          IF ShouldRefresh(status, requests[r].config)
          THEN /\ requests' = [requests EXCEPT
                                 ![r].pc = "refreshing",
                                 ![r].config._retry = TRUE,
                                 ![r].refreshToken = localStorage.refreshToken,
                                 ![r].refreshes = @ + 1]
               /\ UNCHANGED <<localStorage, store>>
          ELSE Rejected(r, status, localStorage)
    /\ UNCHANGED <<defaults, location, session>>
    /\ OutsideBrowser

\* axios.post('/auth/refresh') resolves: the new token is stored and the
\* request is sent again through the client
RefreshSucceeds(r) ==
    /\ requests[r].pc = "refreshing"
    /\ session.issued < MaxTokens
    /\ LET token == Token(session.issued + 1)
       IN  /\ localStorage' = [localStorage EXCEPT !.token = token]
           /\ defaults' = token
           /\ requests' = [requests EXCEPT
                            ![r].pc = "sent",
                            ![r].config.Authorization = token,
                            ![r].replays = @ + 1]
    /\ session' = [session EXCEPT !.issued = @ + 1]
    /\ UNCHANGED <<store, location>>
    /\ OutsideBrowser

\* axios.post('/auth/refresh') is rejected: localStorage.clear(), the login
\* page is requested and the request is rejected with the refresh error
RefreshFails(r) ==
    /\ requests[r].pc = "refreshing"
    /\ location' = "/login"
    /\ Rejected(r, 401, NoStorage)
    /\ UNCHANGED <<defaults, session>>
    /\ OutsideBrowser

NextBrowser ==
    \/ PageRequest
    \/ Login
    \/ CheckAuth
    \/ Logout
    \/ \E r \in 1..Len(requests) : Fulfil(r)
    \/ \E r \in 1..Len(requests) : Fail(r)
    \/ \E r \in 1..Len(requests) : RefreshSucceeds(r)
    \/ \E r \in 1..Len(requests) : RefreshFails(r)

SpecBrowser == InitBrowser /\ [][NextBrowser]_vars

-----------------------------------------------------------------------------
(* The socket server: io.on('connection') and the handlers it registers on *)
(* each socket.  A socket is in the room of its own id from its connection *)
(* on; socket.to(room).emit reaches the sockets of the room but the sender. *)

\* Bound: the sockets that connect
MaxSockets == 3

Sockets == 1..MaxSockets
SocketId(s) == [socket |-> s]
BoardRooms == {ObjectId(1), ObjectId(2)}

\* The events the server relays to the room data.boardId
BoardEvents == {"card_created", "card_updated", "card_moved", "card_deleted",
                "list_created", "list_updated", "typing"}

\* data.boardId as a client may send it: a board, or the id of a socket
RoomNames == BoardRooms \cup { SocketId(s) : s \in Sockets }

InitSockets ==
    /\ card = Null
    /\ cards = <<>>
    /\ lists = <<>>
    /\ now = Midnight
    /\ variant = "cardId"
    /\ pc = "uncalled"
    /\ InitResults
    /\ NoRequest
    /\ NoCardRequests
    /\ NoBrowser
    /\ joined = [s \in Sockets |-> {}]
    /\ emitted = NotRun

OutsideSockets ==
    UNCHANGED <<card, lists, cards, now, variant, pc, loaded, dueDateRec,
                listMovementRec, priorityRec, relatedCardsRec, response,
                boards, req, res, hpc, controller, calls, book, frontVars>>

Connected(s) == joined[s] # {}

\* socket.to(room): the sockets of the room, but the sender
To(s, room) == { t \in Sockets \ {s} : room \in joined[t] }

\* socket.to(room).emit(event, data)
Emit(s, room, event) ==
    emitted' = [event |-> event, boardId |-> room, from |-> s,
                to |-> To(s, room)]

\* io.on('connection'): the socket is in the room of its id
Connect(s) ==
    /\ ~Connected(s)
    /\ joined' = [joined EXCEPT ![s] = {SocketId(s)}]
    /\ UNCHANGED emitted
    /\ OutsideSockets

\* socket.on('join_board')
JoinBoard(s) ==
    /\ Connected(s)
    /\ \E boardId \in BoardRooms :
          /\ joined' = [joined EXCEPT ![s] = @ \cup {boardId}]
          /\ Emit(s, boardId, "user_joined")
    /\ OutsideSockets

\* socket.on('leave_board')
LeaveBoard(s) ==
    /\ Connected(s)
    /\ \E boardId \in BoardRooms :
          /\ joined' = [joined EXCEPT ![s] = @ \ {boardId}]
          /\ Emit(s, boardId, "user_left")
    /\ OutsideSockets

\* socket.on('card_created') ... socket.on('typing'): the event is relayed to
\* the room data.boardId
Relay(s) ==
    /\ Connected(s)
    /\ \E event \in BoardEvents, boardId \in RoomNames :
          Emit(s, boardId, event)
    /\ UNCHANGED joined
    /\ OutsideSockets

\* socket.on('disconnect'): the socket has left its rooms
Disconnect(s) ==
    /\ Connected(s)
    /\ joined' = [joined EXCEPT ![s] = {}]
    /\ UNCHANGED emitted
    /\ OutsideSockets

NextSockets ==
    \E s \in Sockets :
        \/ Connect(s)
        \/ JoinBoard(s)
        \/ LeaveBoard(s)
        \/ Relay(s)
        \/ Disconnect(s)

SpecSockets == InitSockets /\ [][NextSockets]_vars


-----------------------------------------------------------------------------
(* Properties.  The keyword lists below are those the specification of the  *)
(* engine states, which the properties are about; the tables above are the  *)
(* code's.                                                                  *)

StatedUrgency ==
    << <<"t","o","d","a","y">>, <<"n","o","w">>, <<"i","m","m","e","d","i","a","t","e">>, <<"a","s","a","p">>, <<"i","m","m","e","d","i","a","t","e","l","y">>, <<"u","r","g","e","n","t">>,
       <<"c","r","i","t","i","c","a","l">>, <<"e","m","e","r","g","e","n","c","y">> >>
StatedNextWeek == << <<"n","e","x","t"," ","w","e","e","k">>, <<"u","p","c","o","m","i","n","g">>, <<"l","a","t","e","r">> >>
StatedPriorityUrgent ==
    << <<"u","r","g","e","n","t">>, <<"c","r","i","t","i","c","a","l">>, <<"a","s","a","p">>, <<"i","m","m","e","d","i","a","t","e","l","y">>, <<"e","m","e","r","g","e","n","c","y">> >>
StatedDone ==
    << <<"d","o","n","e">>, <<"c","o","m","p","l","e","t","e","d">>, <<"f","i","n","i","s","h","e","d">>, <<"c","o","m","p","l","e","t","e">>, <<"r","e","s","o","l","v","e","d">>, <<"f","i","x","e","d">>,
       <<"c","l","o","s","e","d">> >>

\* A suggester has been applied to the card and has returned
Returned == pc = "done"

HasDueDate == Truthy(card.dueDate)

\* The suggestion is dated on the calendar day of the call
SameDay(rec) == rec # Null /\ ParseDate(rec.suggestedDate).day = now.day

\* C1: a card whose dueDate is set gets no due-date suggestion, from
\* analyzeDueDate and from suggestDueDate alike, whatever its text.
C1_DueDateSetNoSuggestion == (Returned /\ HasDueDate) => dueDateRec = Null

\* C1 witness: analyzeDueDate has run on a card with a due date whose text
\* holds an urgent keyword.
C1_Witness ==
    /\ Returned /\ variant = "card" /\ HasDueDate
    /\ SomeIncluded(urgentKeywords, CardText(card))

TodayKeywordDecides ==
    LET content == CardText(card)
        tokens == tokenize(content)
        keyed == {i \in 1..Len(tokens) :
                    \/ Includes(urgencyKeywords.today, tokens[i])
                    \/ Includes(urgencyKeywords.tomorrow, tokens[i])}
        phrase == \/ SomeIncluded(urgencyKeywords.thisWeek, content)
                  \/ SomeIncluded(urgencyKeywords.nextWeek, content)
    IN  /\ keyed # {}
        /\ Includes(urgencyKeywords.today, tokens[Nth(keyed, 1)])
        /\ (~phrase \/ Nth(keyed, 1) = 1)

UrgencyKeywordKnown ==
    LET content == CardText(card)
        tokens == tokenize(content)
    IN  IF variant = "card"
        THEN \E i \in 1..Len(StatedUrgency) :
                /\ Includes(urgentKeywords, StatedUrgency[i])
                /\ StrIncludes(content, StatedUrgency[i])
        ELSE \E i \in 1..Len(tokens) :
                /\ Includes(StatedUrgency, tokens[i])
                /\ \/ Includes(urgencyKeywords.today, tokens[i])
                   \/ Includes(urgencyKeywords.tomorrow, tokens[i])

\* C3 as stated: a text with an urgency keyword and a nextWeek phrase, in
\* either order, gets the outcome of the urgency rule (confidence high, dated
\* today or tomorrow), never the nextWeek outcome.
C3_UrgencyBeatsNextWeek ==
    (Returned /\ ~HasDueDate /\ UrgencyKeywordKnown
        /\ SomeIncluded(StatedNextWeek, CardText(card)))
        => /\ dueDateRec # Null
           /\ dueDateRec.confidence = "high"
           /\ ParseDate(dueDateRec.suggestedDate).day <= now.day + 1

\* The words of a card's text that the similarity measure counts
WordsOf(c) == SplitWords(toLowerCase(TitleAndDescription(c)))

\* C4 as stated: the similarity of the subject with a sibling equals the
\* similarity computed with the sibling as subject and the subject as sibling.
C4_SimilaritySymmetric ==
    (Returned /\ variant = "card") =>
        \A i \in 1..Len(loaded.boardCards) :
            Similarity(WordsOf(card), WordsOf(loaded.boardCards[i]))
                = Similarity(WordsOf(loaded.boardCards[i]), WordsOf(card))

\* The cards a finder returned: findRelatedCards(card, boardCards) returns a
\* suggestion holding them or null, findRelatedCards(card) returns the array
ReturnedCards ==
    IF variant = "cardId" THEN relatedCardsRec
    ELSE IF relatedCardsRec = Null THEN <<>>
    ELSE relatedCardsRec.cards

\* At most 3 items, each with a similarity from 30 to 100
AtMostThreeInRange(items) ==
    /\ Len(items) <= 3
    /\ \A i \in 1..Len(items) : items[i].similarity \in 30..100

\* C5 as stated: a related-card finder returns at most 3 items, each with an
\* integer similarity between 30 and 100.
C5_AtMostThreeBetween30And100 == Returned => AtMostThreeInRange(ReturnedCards)

\* C5 for the token-overlap finder alone
C5_TokenOverlapInRange ==
    (Returned /\ variant = "card") => AtMostThreeInRange(ReturnedCards)

\* C6: a priority suggestion never names the card's current priority.
C6_NeverCurrentPriority ==
    (Returned /\ priorityRec # Null)
        => priorityRec.suggestedPriority # card.priority

\* C6 witness: analyzePriority has returned a suggestion for a card of low
\* priority.
C6_Witness ==
    /\ Returned /\ variant = "card" /\ card.priority = "low"
    /\ priorityRec # Null

\* What the priority suggester must answer when its rule computes priority p
\* with confidence conf: that suggestion, or nothing when p is the current
\* priority
Answers(p, conf) ==
    IF card.priority = p THEN priorityRec = Null
    ELSE /\ priorityRec # Null
         /\ priorityRec.suggestedPriority = p
         /\ priorityRec.confidence = conf

\* Escalation by the number n of keywords found
EscalatesBy(n) ==
    /\ n >= 2 => Answers("urgent", "high")
    /\ n = 1 => Answers("high", "medium")

MovementSuggested ==
    Returned /\ listMovementRec # Null /\ listMovementRec # TypeError

\* C8 as stated: a suggested list title is the title of a list of the card's
\* board.
C8_SuggestedListExists ==
    MovementSuggested =>
        \E i \in 1..Len(lists) :
            /\ lists[i].board = card.board
            /\ lists[i].title = listMovementRec.suggestedList

\* The lists analyzeListMovement is given, and those of them, other than the
\* card's current list, whose title contains "done"
BoardLists == ListQuery(lists, card)
OtherDoneLists ==
    {i \in 1..Len(BoardLists) :
        /\ StrIncludes(toLowerCase(BoardLists[i].title), <<"d","o","n","e">>)
        /\ BoardLists[i]._id # card.list}

\* C9 as stated: when the text contains a done keyword and the board has a
\* list whose title contains "done" that is not the card's current list,
\* analyzeListMovement suggests that list with confidence high, also when the
\* text holds an in-progress keyword and the board a "progress" list.
C9_DoneWins ==
    (/\ Returned /\ variant = "card"
     /\ \E i \in 1..Len(BoardLists) : BoardLists[i]._id = card.list
     /\ SomeIncluded(StatedDone, CardText(card))
     /\ OtherDoneLists # {})
        => /\ listMovementRec # Null
           /\ \E i \in OtherDoneLists :
                listMovementRec.suggestedList = BoardLists[i].title
           /\ listMovementRec.confidence = "high"

\* The call returned a result object
Fulfilled ==
    pc = "done" /\ response # NotRun /\ response.status = "fulfilled"
        /\ response.value # Null

\* The result of the suggester that makes suggestions of the given type, as
\* it is pushed: generateRecommendations(cardId) wraps a non-empty array of
\* related cards
ResultOfType(type) ==
    CASE type = "due_date" -> dueDateRec
      [] type = "list_movement" -> listMovementRec
      [] type = "priority" -> priorityRec
      [] type = "related_cards" ->
            IF variant = "card" THEN relatedCardsRec
            ELSE IF Len(relatedCardsRec) = 0 THEN Null
            ELSE [type |-> "related_cards", title |-> "Related Cards",
                  description |->
                    "These cards have similar content and might be grouped together",
                  cards |-> relatedCardsRec, confidence |-> "medium"]

SuggestionTypes == {"due_date", "list_movement", "priority", "related_cards"}

\* suggestions holds exactly the non-null results, ordered by Rank of type
HoldsNonNullResultsInOrder(Rank) ==
    LET suggestions == response.value.suggestions
    IN  /\ \A i \in 1..Len(suggestions) :
            /\ suggestions[i].type \in SuggestionTypes
            /\ suggestions[i] = ResultOfType(suggestions[i].type)
        /\ \A type \in SuggestionTypes :
            ResultOfType(type) # Null =>
                \E i \in 1..Len(suggestions) : suggestions[i].type = type
        /\ \A i, j \in 1..Len(suggestions) :
            i < j => Rank[suggestions[i].type] < Rank[suggestions[j].type]

\* due date, list movement, priority, related cards
StatedOrder ==
    [type \in SuggestionTypes |->
        CASE type = "due_date" -> 1 [] type = "list_movement" -> 2
          [] type = "priority" -> 3 [] type = "related_cards" -> 4]

\* due date, list movement, related cards, priority
CardIdOrder ==
    [type \in SuggestionTypes |->
        CASE type = "due_date" -> 1 [] type = "list_movement" -> 2
          [] type = "related_cards" -> 3 [] type = "priority" -> 4]

\* Every suggester ran and returned null (or no related card)
NoSuggesterProduced ==
    /\ pc = "done"
    /\ dueDateRec = Null /\ listMovementRec = Null /\ priorityRec = Null
    /\ IF variant = "card" THEN relatedCardsRec = Null
       ELSE Len(relatedCardsRec) = 0

\* C10 as stated: the returned suggestions are the non-null suggester results,
\* and only those, in the order due date, list movement, priority, related
\* cards; when no suggester produces a result the call succeeds with an empty
\* sequence.
C10_NonNullResultsInStatedOrder ==
    /\ Fulfilled => HoldsNonNullResultsInOrder(StatedOrder)
    /\ NoSuggesterProduced => (Fulfilled /\ response.value.suggestions = <<>>)

\* C10 amended: as stated for generateRecommendations(card); in
\* generateRecommendations(cardId) the order is due date, list movement,
\* related cards, priority.
C10_NonNullResultsInVariantOrder ==
    /\ Fulfilled =>
        HoldsNonNullResultsInOrder(IF variant = "card" THEN StatedOrder
                                   ELSE CardIdOrder)
    /\ NoSuggesterProduced => (Fulfilled /\ response.value.suggestions = <<>>)

\* C10 witness: generateRecommendations(cardId) has returned four suggestions,
\* the related cards ahead of the priority.
C10_Witness ==
    /\ Fulfilled /\ variant = "cardId"
    /\ Len(response.value.suggestions) = 4
    /\ response.value.suggestions[3].type = "related_cards"

-----------------------------------------------------------------------------
(* Failures, stored data, missing fields *)

\* A suggester of the finished call threw
SuggesterThrew ==
    pc = "done" /\ listMovementRec = TypeError

\* C11 as stated: if a suggester throws during generateRecommendations (the
\* list-movement suggester reading the list of a card that has none), the call
\* still returns a result: it holds no suggestion of that suggester and it
\* holds the due-date suggestion the call had computed.
C11_SuggesterFailureGivesPartialResult ==
    SuggesterThrew =>
        /\ Fulfilled
        /\ \A i \in 1..Len(response.value.suggestions) :
              response.value.suggestions[i].type # "list_movement"
        /\ dueDateRec # Null =>
              \E i \in 1..Len(response.value.suggestions) :
                  response.value.suggestions[i] = dueDateRec

\* A query for the sibling cards or the lists of the finished call rejected
DataAccessFailed ==
    pc = "done" /\ loaded.error = DataAccessError

\* C12 as stated: a failure while loading sibling cards or lists aborts the
\* whole call and reaches the caller as that error; the call does not return
\* a result, null or an empty related-cards list.
C12_DataAccessErrorReachesCaller ==
    DataAccessFailed =>
        /\ response.status = "rejected"
        /\ response.error = DataAccessError

\* C13: no step of a call to generateRecommendations, successful or failing,
\* changes a stored Card, List or Board record.
C13_StoredDataUnchanged ==
    [][card' = card /\ cards' = cards /\ lists' = lists /\ boards' = boards]_vars

\* C13 witness: a call that ran its queries on a board with sibling cards has
\* returned suggestions.
C13_Witness ==
    /\ Fulfilled
    /\ Len(cards) > 1
    /\ Len(response.value.suggestions) > 0

\* The card the finished call worked on, with an empty-string description
EmptyDescriptionTwin == [loaded.card EXCEPT !.description = <<>>]

\* The four suggester results of the finished call are those the suggesters
\* give for c, on the sibling cards and lists the call loaded
SameResultsAsFor(c) ==
    IF variant = "card"
    THEN /\ dueDateRec = analyzeDueDate(CardText(c), c)
         /\ listMovementRec = analyzeListMovement(CardText(c), c, loaded.lists)
         /\ priorityRec = analyzePriority(CardText(c), c)
         /\ relatedCardsRec = findRelatedCards(c, loaded.boardCards)
    ELSE /\ dueDateRec = suggestDueDate(c)
         /\ listMovementRec = suggestListMovement(c)
         /\ priorityRec = suggestPriority(c)
         /\ relatedCardsRec = findRelatedCardsTfIdf(c, loaded.boardCards)

\* C14 as stated: for a card whose description is absent every suggester
\* returns what it returns for the same card with an empty-string
\* description.
C14_AbsentDescriptionAsEmpty ==
    (Fulfilled /\ loaded.error = NotRun /\ card.description = UndefinedStr)
        => SameResultsAsFor(EmptyDescriptionTwin)

-----------------------------------------------------------------------------
(* Due-date offsets *)

StatedThisWeek == << <<"t","h","i","s"," ","w","e","e","k">>, <<"s","o","o","n">>, <<"s","h","o","r","t","l","y">>, <<"q","u","i","c","k","l","y">> >>

\* The due-date suggestion is n days after the call, at the same time of
\* day, with the given confidence
DueIn(n, confidence) ==
    /\ dueDateRec # Null
    /\ ParseDate(dueDateRec.suggestedDate) = AddDays(now, n)
    /\ dueDateRec.confidence = confidence

\* A due-date suggester has answered a card without due date whose text
\* holds no urgency keyword
NoUrgencyAnswered ==
    Returned /\ ~HasDueDate /\ ~SomeIncluded(StatedUrgency, CardText(card))

\* C16 as stated: without an urgency keyword, "tomorrow" gives +1 day with
\* confidence high; otherwise a thisWeek phrase gives +3 days with confidence
\* medium; otherwise a nextWeek phrase gives +7 days with confidence medium.
C16_OffsetByHighestCategory ==
    NoUrgencyAnswered =>
        LET content == CardText(card)
        IN  IF StrIncludes(content, <<"t","o","m","o","r","r","o","w">>) THEN DueIn(1, "high")
            ELSE IF SomeIncluded(StatedThisWeek, content) THEN DueIn(3, "medium")
            ELSE SomeIncluded(StatedNextWeek, content) => DueIn(7, "medium")

\* No category of the stated tables matches the text
NoStatedCategory ==
    LET content == CardText(card)
    IN  /\ ~SomeIncluded(StatedUrgency, content)
        /\ ~StrIncludes(content, <<"t","o","m","o","r","r","o","w">>)
        /\ ~SomeIncluded(StatedThisWeek, content)
        /\ ~SomeIncluded(StatedNextWeek, content)

\* C17 as stated: a card without a due date always gets a suggestion; when no
\* category matches it is +7 days with confidence low for a text longer than
\* 100 characters and +5 days with confidence low otherwise.
C17_TotalWithDefault ==
    (Returned /\ ~HasDueDate) =>
        /\ dueDateRec # Null
        /\ NoStatedCategory =>
              IF Len(CardText(card)) > ComplexTextLength
              THEN DueIn(7, "low") ELSE DueIn(5, "low")

\* No rule of the applied suggester matches the text: no urgentKeywords or
\* dateKeywords substring for analyzeDueDate; no today or tomorrow token and no
\* thisWeek or nextWeek phrase for suggestDueDate
NoRuleMatches ==
    LET content == CardText(card)
        tokens == tokenize(content)
    IN  IF variant = "card"
        THEN /\ ~SomeIncluded(urgentKeywords, content)
             /\ ~SomeIncluded(dateKeywords, content)
        ELSE /\ \A i \in 1..Len(tokens) :
                    /\ ~Includes(urgencyKeywords.today, tokens[i])
                    /\ ~Includes(urgencyKeywords.tomorrow, tokens[i])
             /\ ~SomeIncluded(urgencyKeywords.thisWeek, content)
             /\ ~SomeIncluded(urgencyKeywords.nextWeek, content)

\* C17 amended: for a card without a due date none of whose rules matches,
\* analyzeDueDate suggests +7 days with confidence low when the text is longer
\* than 100 characters and nothing otherwise; suggestDueDate suggests +5 days
\* with confidence low whatever the length, and always returns a suggestion
\* for a card without a due date.
C17_LengthRuleOrDefaultByVariant ==
    (Returned /\ ~HasDueDate) =>
        IF variant = "card"
        THEN NoRuleMatches =>
                IF Len(CardText(card)) > ComplexTextLength
                THEN DueIn(7, "low") ELSE dueDateRec = Null
        ELSE /\ dueDateRec # Null
             /\ NoRuleMatches => DueIn(5, "low")

\* C17 witness: analyzeDueDate has answered a text of more than 100
\* characters that none of its keyword rules matches.
C17_Witness ==
    /\ Returned /\ variant = "card" /\ ~HasDueDate /\ NoRuleMatches
    /\ Len(CardText(card)) > ComplexTextLength
    /\ DueIn(7, "low")

-----------------------------------------------------------------------------
(* Priority and list movement: suppressed suggestions *)

\* C18 as stated: a card whose priority is urgent gets no priority
\* suggestion, whatever its text.
C18_UrgentCardNoSuggestion ==
    (Returned /\ card.priority = "urgent") => priorityRec = Null

\* The title of the card's current list among the lists of its board, or
\* Undefined
CurrentListOf(c, ls) ==
    Find(ls, [i \in 1..Len(ls) |-> ls[i]._id = c.list])

StatedBlocked ==
    << <<"b","l","o","c","k","e","d">>, <<"s","t","u","c","k">>, <<"i","s","s","u","e">>, <<"p","r","o","b","l","e","m">>, <<"w","a","i","t","i","n","g">>, <<"p","e","n","d","i","n","g">>,
       <<"h","o","l","d">> >>

\* The lists of the card's board titled "Blocked" other than its current list
OtherBlockedLists ==
    {i \in 1..Len(BoardLists) :
        /\ BoardLists[i].title = <<"B","l","o","c","k","e","d">>
        /\ BoardLists[i]._id # card.list}

\* The text holds a blocked keyword and no done keyword
BlockedNotDone ==
    /\ SomeIncluded(StatedBlocked, CardText(card))
    /\ ~SomeIncluded(StatedDone, CardText(card))

\* C20 as stated: a text with a blocked keyword and no done keyword gets a
\* suggestion targeting "Blocked" with confidence high when the board has a
\* list titled "Blocked" that is not the card's current list, and no
\* suggestion targeting "Blocked" when the board has no such list.
C20_BlockedIfListExists ==
    (/\ Returned /\ BlockedNotDone
     /\ \E i \in 1..Len(BoardLists) : BoardLists[i]._id = card.list)
        => IF OtherBlockedLists # {}
           THEN /\ listMovementRec # Null
                /\ listMovementRec.suggestedList = <<"B","l","o","c","k","e","d">>
                /\ listMovementRec.confidence = "high"
           ELSE \/ listMovementRec = Null
                \/ listMovementRec.suggestedList # <<"B","l","o","c","k","e","d">>

-----------------------------------------------------------------------------
(* Access to recommendations *)

\* The board the request in hand is about, or null
RequestedBoard == FindById(boards, BoardIdOf(req))

\* The request names a card that is stored, or a card to create
AddressesCard ==
    req.handler = "createCard" \/ FindById(cards, req.id) # Null

\* The requesting user is the owner or a member of the requested board
RequesterIsMember ==
    /\ RequestedBoard # Null
    /\ \/ RequestedBoard.owner = req.user
       \/ \E i \in 1..Len(RequestedBoard.members) :
             RequestedBoard.members[i].user = req.user

\* C15: generateRecommendations is invoked only for a requester who is a
\* member or the owner of the card's board, recommendation data is sent only
\* to such a requester, and any other requester of a card is answered 403
\* without data.
C15_MembersOnly ==
    /\ pc # "uncalled" => RequesterIsMember
    /\ (res # NotRun /\ "data" \in DOMAIN res.body) => RequesterIsMember
    /\ (res # NotRun /\ AddressesCard /\ ~RequesterIsMember)
          => (res.status = 403 /\ "data" \notin DOMAIN res.body)

\* C15 witness: the owner of the other board has asked for the
\* recommendations of the stored card and has been answered 403.
C15_Witness ==
    /\ res # NotRun /\ res.status = 403
    /\ req.user = Outsider /\ req.handler # "createCard"
    /\ FindById(cards, req.id) # Null

-----------------------------------------------------------------------------
(* Related cards: ranking, confidence, sibling set *)

\* The score the applied finder ranks the loaded siblings by: the similarity
\* percentage of findRelatedCards(card, boardCards), the TF-IDF measure (in
\* thousandths) of findRelatedCards(card)
Scores ==
    LET others == loaded.boardCards
    IN  IF variant = "card"
        THEN [i \in 1..Len(others) |-> Similarity(WordsOf(card), WordsOf(others[i]))]
        ELSE LET documents ==
                    <<tokenize(CardText(card))>> \o
                    [i \in 1..Len(others) |-> tokenize(CardText(others[i]))]
                 measure == TfIdfMeasures(tokenize(CardText(card)), documents)
             IN  [i \in 1..Len(others) |-> measure[i + 1]]

\* The loaded siblings that pass the threshold of the applied finder
PassingSiblings ==
    {i \in 1..Len(loaded.boardCards) :
        IF variant = "card" THEN Scores[i] > 30 ELSE Scores[i] > 300}

\* The loaded siblings the finder returned
ReturnedSiblings ==
    {i \in 1..Len(loaded.boardCards) :
        \E k \in 1..Len(ReturnedCards) :
            loaded.boardCards[i]._id =
                (IF variant = "card" THEN ReturnedCards[k].cardId
                 ELSE ReturnedCards[k]._id)}

\* C21: the returned items are in non-increasing order of similarity, and no
\* sibling that passes the threshold and is left out scores higher than a
\* returned sibling.
C21_TopOfRanking ==
    Returned =>
        /\ \A k \in 1..(Len(ReturnedCards) - 1) :
              ReturnedCards[k].similarity >= ReturnedCards[k + 1].similarity
        /\ \A i \in PassingSiblings \ ReturnedSiblings :
              \A j \in ReturnedSiblings : Scores[i] <= Scores[j]

\* C21 witness: a finder has returned three siblings of different similarity
\* and left out a fourth that passes the threshold.
C21_Witness ==
    /\ Returned
    /\ Len(ReturnedCards) = 3
    /\ ReturnedCards[1].similarity > ReturnedCards[3].similarity
    /\ PassingSiblings \ ReturnedSiblings # {}

\* The call loaded its siblings and returned a result object
ReturnedWithSiblings == Fulfilled /\ loaded.error = NotRun

\* The related-cards suggestion is absent when no loaded sibling passes the
\* threshold, and otherwise has the confidence given for the number n of
\* passing siblings
RelatedConfidenceIs(high, medium) ==
    LET n == Cardinality(PassingSiblings)
        suggestion == ResultOfType("related_cards")
    IN  IF n = 0 THEN suggestion = Null
        ELSE /\ suggestion # Null
             /\ suggestion.confidence = (IF n >= 2 THEN high ELSE medium)

\* C22 as stated: the related-cards suggestion has confidence high exactly
\* when two or more siblings pass the threshold and medium when exactly one
\* passes; when none passes, no related-cards suggestion is emitted.
C22_HighFromTwoSiblings ==
    ReturnedWithSiblings => RelatedConfidenceIs("high", "medium")

\* C22 amended: as stated for generateRecommendations(card);
\* generateRecommendations(cardId) gives the suggestion confidence medium
\* for any number of passing siblings; neither emits a suggestion when no
\* sibling passes.
C22_HighFromTwoSiblingsInCardVariant ==
    ReturnedWithSiblings =>
        RelatedConfidenceIs(IF variant = "card" THEN "high" ELSE "medium", "medium")

\* C22 witness: generateRecommendations(cardId) has returned a related-cards
\* suggestion for two or more passing siblings.
C22_Witness ==
    /\ ReturnedWithSiblings /\ variant = "cardId"
    /\ Cardinality(PassingSiblings) >= 2
    /\ ResultOfType("related_cards") # Null

\* The sibling query of the call has returned
SiblingsLoaded ==
    \/ pc = "awaitLists"
    \/ pc = "done" /\ loaded.error # DataAccessError /\ loaded.card # NotRun

\* C23 as stated: the siblings a call scores are cards of the subject's
\* board, not the subject, not archived, and at most 50.
C23_SiblingSetBounded ==
    SiblingsLoaded =>
        /\ \A i \in 1..Len(loaded.boardCards) :
              /\ loaded.boardCards[i].board = card.board
              /\ loaded.boardCards[i]._id # card._id
              /\ ~loaded.boardCards[i].isArchived
        /\ Len(loaded.boardCards) <= 50

\* The positions of a call at which a storage query is awaited
AwaitingStorage == {"awaitCards", "awaitLists", "awaitCard", "awaitSiblings"}

\* C24 as stated: within one call every storage read completes before the
\* first suggester runs; once a suggester has run no storage read is awaited.
C24_ReadsBeforeSuggesters ==
    dueDateRec # NotRun => pc \notin AwaitingStorage

\* No card request is being handled
Quiescent == \A p \in Connections : calls[p] = NoCall

\* How often id occurs in the cards array of list l
Occurrences(l, id) == Cardinality({ i \in 1..Len(l.cards) : l.cards[i] = id })

\* Every existing card's id occurs exactly once across the lists' cards
\* arrays, in the list of its list field, and no array holds the id of a
\* card that does not exist
BookkeepingConsistent ==
    /\ \A i \in 1..Len(cards) : \A j \in 1..Len(lists) :
          Occurrences(lists[j], cards[i]._id)
              = IF lists[j]._id = cards[i].list THEN 1 ELSE 0
    /\ \A i \in 1..Len(cards) : FindById(lists, cards[i].list) # Null
    /\ \A j \in 1..Len(lists) : \A k \in 1..Len(lists[j].cards) :
          FindById(cards, lists[j].cards[k]) # Null

\* C25 as stated: after any sequence of successful createCard, moveCard and
\* deleteCard requests, handled one after the other, every existing card's
\* id occurs exactly once across the lists' cards arrays, in the list named
\* by its list field, and no array holds the id of a deleted card.
C25_BookkeepingConsistent ==
    (Quiescent /\ ~book.failed /\ ~book.overlapped) => BookkeepingConsistent

\* C26 as stated: createCard requests that interleave at their awaits all end
\* up in the cards array of their list, and no two cards of a list share a
\* position.
C26_InterleavedCreatesKeepPositions ==
    (Quiescent /\ ~book.failed /\ book.handlers = {"createCard"}) =>
        /\ \A i \in 1..Len(cards) :
              Occurrences(FindById(lists, cards[i].list), cards[i]._id) = 1
        /\ \A i, j \in 1..Len(cards) :
              (i # j /\ cards[i].list = cards[j].list)
                  => cards[i].position # cards[j].position

\* How many entries of the board's members array are of this user
EntriesOf(board, user) ==
    Cardinality({ i \in 1..Len(board.members) : board.members[i].user = user })

\* C27 as stated: after any sequence of createBoard, inviteMember and
\* removeMember requests a board's members array contains each user at most
\* once and always contains the owner's entry.
C27_MembersOnceAndOwnerKept ==
    \A i \in 1..Len(boards) :
        /\ \A u \in Users : EntriesOf(boards[i], u) <= 1
        /\ EntriesOf(boards[i], boards[i].owner) = 1

\* Request r was waiting for the answer to its replay and this step settles it
ReplayAnswered(r) ==
    /\ r <= Len(requests)
    /\ requests[r].pc = "sent"
    /\ requests[r].replays = 1
    /\ requests'[r].pc # "sent"

\* Request r was waiting for its refresh and this step ends the wait without
\* sending the request again
RefreshFailed(r) ==
    /\ r <= Len(requests)
    /\ requests[r].pc = "refreshing"
    /\ requests'[r].pc # "refreshing"
    /\ requests'[r].replays = requests[r].replays

\* C28: for every request the response interceptor performs at most one token
\* refresh and at most one replay; an error on the replayed request settles
\* the request without another refresh, and a failed refresh clears
\* localStorage and rejects the request.
C28_BoundedRefresh ==
    [][\A r \in 1..Len(requests') :
          /\ requests'[r].refreshes <= 1
          /\ requests'[r].replays <= 1
          /\ ReplayAnswered(r) =>
                /\ requests'[r].pc \in {"fulfilled", "rejected"}
                /\ requests'[r].refreshes = requests[r].refreshes
          /\ RefreshFailed(r) =>
                /\ requests'[r].pc = "rejected"
                /\ localStorage' = NoStorage]_vars

\* A request was refreshed and replayed once and its replay was answered 401
C28_Witness ==
    \E r \in 1..Len(requests) :
        /\ requests[r].pc = "rejected"
        /\ requests[r].status = 401
        /\ requests[r].refreshes = 1
        /\ requests[r].replays = 1

\* C29 as stated: once logout has run, user and token stay null and no token
\* is in localStorage until a later login or register succeeds.
C29_LogoutIsFinal ==
    session.loggedOut =>
        /\ store.user = Null
        /\ store.token = Null
        /\ localStorage.token = Null

\* This step relays a board event
Relayed == emitted' # emitted /\ emitted'.event \in BoardEvents

\* C30 as stated: a card_*, list_* or typing event is delivered only to other
\* sockets joined to the room data.boardId, never to its sender, and a
\* socket that is not in a board's room causes no delivery to that room.
C30_EventsStayInTheRoom ==
    [][Relayed =>
          /\ \A t \in emitted'.to :
                t # emitted'.from /\ emitted'.boardId \in joined[t]
          /\ emitted'.to # {} => emitted'.boardId \in joined[emitted'.from]]_vars

=============================================================================
